---- MODULE Spec2Model ----
(***************************************************************************)
(* Model of the infrastructure health checker (scripts/checker.py):        *)
(* InfraChecker.run_all_checks, the evaluators it routes to, and           *)
(* get_summary.  The repository also carries an older copy of the module,  *)
(* checker.py at its root; the variable copy says which of the two runs.   *)
(* SpecMain adds main() of scripts/main.py after the checks (summary       *)
(* output, notification through scripts/notifier.py, exit code).           *)
(*                                                                         *)
(* Text is a sequence of one-character strings, so that strip, split,      *)
(* substring search, the numeric regular expression, float() and str()     *)
(* are computed on characters as Python computes them.  Numbers parsed     *)
(* from text are exact decimals [num, den] (den a power of ten) and are    *)
(* compared by cross-multiplication; the thresholds of the catalogs used   *)
(* here are multiples of five, for which threshold * 0.8 is exact in       *)
(* binary floating point as well.                                          *)
(***************************************************************************)
EXTENDS Integers, Sequences, FiniteSets, TLC

VARIABLES
    copy,               \* the module file that runs: "scripts" or "root"
    config,             \* self.config['check_items']: the three category lists
    demo_mode,          \* self.demo_mode
    pc,                 \* position of run_all_checks
    idx,                \* index of the next item of the running category loop
    results,            \* the local list `results` of the running category
    self_results,       \* self.results
    kubectl_available,  \* local of run_k8s_checks / run_service_checks
    fault,              \* exception that left run_all_checks, or "none"
    last,               \* locals of the most recent loop iteration
    summary,            \* what the most recent get_summary() returned
    calls,              \* number of get_summary() calls made so far
    main                \* the frame of main() of scripts/main.py

vars == <<copy, config, demo_mode, pc, idx, results, self_results,
          kubectl_available, fault, last, summary, calls, main>>

---------------------------------------------------------------------------
(* Bounds of the model.                                                    *)

MaxValue == 12          \* numeric readings 0..MaxValue are probed
MaxLines == 10          \* longest per-resource listing (ratio match)
MaxReplicaLines == 4    \* longest name:available/desired listing
MaxNodes == 2           \* most rows of a node-utilization table
MaxCalls == 2           \* most get_summary() calls after a run

---------------------------------------------------------------------------
(* Characters and Python string primitives.                                *)

Digits == <<"0", "1", "2", "3", "4", "5", "6", "7", "8", "9">>

IsDigit(c) == \E d \in 1..10 : Digits[d] = c

DigitVal(c) == (CHOOSE d \in 1..10 : Digits[d] = c) - 1

IsSpace(c) == c \in {" ", "\n", "\t"}

Upper == <<"A", "B", "C", "D", "E", "F", "G", "H", "I", "J", "K", "L", "M",
           "N", "O", "P", "Q", "R", "S", "T", "U", "V", "W", "X", "Y", "Z">>

Lower == <<"a", "b", "c", "d", "e", "f", "g", "h", "i", "j", "k", "l", "m",
           "n", "o", "p", "q", "r", "s", "t", "u", "v", "w", "x", "y", "z">>

\* str.lower() on one character
LowerChar(c) ==
    IF \E k \in 1..26 : Upper[k] = c
    THEN Lower[CHOOSE k \in 1..26 : Upper[k] = c]
    ELSE c

\* str.lower()
PyLower(s) == [k \in 1..Len(s) |-> LowerChar(s[k])]

\* s[:n]
Take(s, n) == IF Len(s) <= n THEN s ELSE SubSeq(s, 1, n)

\* pat in s
Contains(s, pat) ==
    \E k \in 1..(Len(s) - Len(pat) + 1) : SubSeq(s, k, k + Len(pat) - 1) = pat

\* s.replace(c, '') for a one-character c
Remove(s, c) == SelectSeq(s, LAMBDA x : x # c)

\* str.strip()
Strip(s) ==
    LET keep == {k \in 1..Len(s) : ~IsSpace(s[k])}
    IN  IF keep = {} THEN <<>>
        ELSE LET lo == CHOOSE k \in keep : \A j \in keep : k <= j
                 hi == CHOOSE k \in keep : \A j \in keep : k >= j
             IN  SubSeq(s, lo, hi)

\* s.split(sep) for a one-character sep: always at least one piece
RECURSIVE Split(_, _)
Split(s, sep) ==
    LET at == {k \in 1..Len(s) : s[k] = sep}
    IN  IF at = {} THEN <<s>>
        ELSE LET k == CHOOSE k \in at : \A j \in at : k <= j
             IN  <<SubSeq(s, 1, k - 1)>> \o Split(SubSeq(s, k + 1, Len(s)), sep)

\* s.split(): pieces between runs of whitespace, never an empty piece
SplitWs(s) ==
    LET blanked == [k \in 1..Len(s) |-> IF IsSpace(s[k]) THEN " " ELSE s[k]]
    IN  SelectSeq(Split(blanked, " "), LAMBDA p : p # <<>>)

\* sep.join(parts)
RECURSIVE Join(_, _)
Join(parts, sep) ==
    IF parts = <<>> THEN <<>>
    ELSE IF Len(parts) = 1 THEN parts[1]
    ELSE parts[1] \o sep \o Join(Tail(parts), sep)

---------------------------------------------------------------------------
(* Numbers: exact decimals.                                                *)

RECURSIVE Pow10(_)
Pow10(k) == IF k = 0 THEN 1 ELSE 10 * Pow10(k - 1)

\* value of a run of digits
RECURSIVE DigitsToNat(_)
DigitsToNat(ds) ==
    IF ds = <<>> THEN 0
    ELSE 10 * DigitsToNat(SubSeq(ds, 1, Len(ds) - 1)) + DigitVal(ds[Len(ds)])

\* decimal digits of a natural number
RECURSIVE NatToDigits(_)
NatToDigits(n) ==
    IF n < 10 THEN <<Digits[n + 1]>>
    ELSE NatToDigits(n \div 10) \o <<Digits[(n % 10) + 1]>>

Rat(n, d) == [num |-> n, den |-> d]

RatLt(a, b) == a.num * b.den < b.num * a.den

RatLe(a, b) == a.num * b.den <= b.num * a.den

RatEq(a, b) == a.num * b.den = b.num * a.den

\* max(a, b) of Python: b only when b > a
RatMax(a, b) == IF RatLt(a, b) THEN b ELSE a

\* end of the run of digits that starts at position k of s
DigitRunEnd(s, k) ==
    CHOOSE e \in k..Len(s) :
        /\ \A j \in k..e : IsDigit(s[j])
        /\ (e = Len(s) \/ ~IsDigit(s[e + 1]))

\* re.search(r'(\d+(\.\d+)?)', s): the set holding the matched text, or {}
RegexNumber(s) ==
    LET at == {k \in 1..Len(s) : IsDigit(s[k])}
    IN  IF at = {} THEN {}
        ELSE LET b == CHOOSE k \in at : \A j \in at : k <= j
                 e == DigitRunEnd(s, b)
             IN  IF e + 2 <= Len(s) /\ s[e + 1] = "." /\ IsDigit(s[e + 2])
                 THEN {SubSeq(s, b, DigitRunEnd(s, e + 2))}
                 ELSE {SubSeq(s, b, e)}

\* float(t) for t of the form digits or digits.digits
DecimalValue(t) ==
    LET parts == Split(t, ".")
    IN  IF Len(parts) = 1 THEN Rat(DigitsToNat(parts[1]), 1)
        ELSE Rat(DigitsToNat(parts[1] \o parts[2]), Pow10(Len(parts[2])))

\* float(t): the set holding the value, or {} for ValueError.  Accepted are
\* an optional sign and digits with at most one decimal point.
PyFloat(t) ==
    LET neg  == t # <<>> /\ t[1] = "-"
        body == IF t # <<>> /\ t[1] \in {"-", "+"} THEN Tail(t) ELSE t
        dots == {k \in 1..Len(body) : body[k] = "."}
        ok   == /\ \A k \in 1..Len(body) : IsDigit(body[k]) \/ body[k] = "."
                /\ Cardinality(dots) <= 1
                /\ \E k \in 1..Len(body) : IsDigit(body[k])
    IN  IF ~ok THEN {}
        ELSE LET v == DecimalValue(body)
             IN  {IF neg THEN Rat(0 - v.num, v.den) ELSE v}

\* str(x) of a non-negative float: integer part, point, fraction without
\* trailing zeros (at least one fraction digit)
RECURSIVE FracDigits(_, _)
FracDigits(n, d) ==
    IF n = 0 THEN <<>>
    ELSE <<Digits[((n * 10) \div d) + 1]>> \o FracDigits((n * 10) % d, d)

PyStrFloat(x) ==
    LET fr == FracDigits(x.num % x.den, x.den)
    IN  NatToDigits(x.num \div x.den) \o <<".">> \o (IF fr = <<>> THEN <<"0">> ELSE fr)

---------------------------------------------------------------------------
(* CheckStatus, messages and CheckResult.                                  *)

CheckStatus == {"OK", "WARNING", "CRITICAL", "UNKNOWN"}

\* Optional values (None of Python) are sets with at most one element.
None == {}

Some(x) == {x}

The(opt) == CHOOSE x \in opt : TRUE

\* A message: the fixed wording is named by kind, the formatted-in parts are
\* a, b (numbers), text and unit.
Msg(kind) ==
    [kind |-> kind, a |-> 0, b |-> 0, text |-> <<>>, unit |-> ""]

MsgText(kind, text) == [Msg(kind) EXCEPT !.text = text]

MsgCount(kind, a, b) == [Msg(kind) EXCEPT !.a = a, !.b = b]

MsgThreshold(kind, threshold, unit) ==
    [Msg(kind) EXCEPT !.a = threshold, !.unit = unit]

NA == <<"N", "/", "A">>

NoData == <<"no-data">>     \* the literal text of line 230, one symbol here

Triple(value, status, message) ==
    [value |-> value, status |-> status, message |-> message]

\* CheckResult(check_id, category, status, value, threshold, unit, message,
\* raw_output); name, description and timestamp are carried through unread.
CheckResult(item, category, status, value, message, raw_output) ==
    [check_id   |-> item.id,
     category   |-> category,
     status     |-> status,
     value      |-> value,
     threshold  |-> item.threshold,
     unit       |-> IF item.unit = None THEN "" ELSE The(item.unit),
     message    |-> message,
     raw_output |-> raw_output]

---------------------------------------------------------------------------
(* _evaluate_threshold.                                                    *)

\* the character U+AC1C, the count suffix that line 77 removes
CountSuffix == "U+AC1C"

zero_is_ok == {"OS-005", "K8S-008", "SVC-004", "SVC-006", "SVC-007", "SVC-008", "SVC-010"}

\* the numeric value the evaluator extracts from a text, or None
numeric_value_of(value) ==
    LET clean_val == Strip(Remove(Remove(value, "%"), CountSuffix))
        match     == RegexNumber(clean_val)
    IN  IF match = {} THEN None ELSE Some(DecimalValue(The(match)))

\* _evaluate_threshold with a text that has no number taken as healthy
_evaluate_threshold_default_ok(value, threshold, check_id) ==
    LET extracted == numeric_value_of(value)
    IN  IF extracted = None THEN "OK"
        ELSE LET numeric_value == The(extracted)
             IN  IF check_id \in zero_is_ok
                 THEN IF RatEq(numeric_value, Rat(0, 1)) THEN "OK"
                      ELSE IF RatLe(numeric_value, Rat(3, 1)) THEN "WARNING"
                      ELSE "CRITICAL"
                 ELSE IF RatLt(numeric_value, Rat(threshold * 8, 10)) THEN "OK"
                      ELSE IF RatLt(numeric_value, Rat(threshold, 1)) THEN "WARNING"
                      ELSE "CRITICAL"

\* _evaluate_threshold with the zero-is-ok tolerance written as < 3
_evaluate_threshold_tolerance(value, threshold, check_id) ==
    LET extracted == numeric_value_of(value)
    IN  IF extracted = None THEN "UNKNOWN"
        ELSE LET numeric_value == The(extracted)
             IN  IF check_id \in zero_is_ok
                 THEN IF RatEq(numeric_value, Rat(0, 1)) THEN "OK"
                      ELSE IF RatLt(numeric_value, Rat(3, 1)) THEN "WARNING"
                      ELSE "CRITICAL"
                 ELSE IF RatLt(numeric_value, Rat(threshold * 8, 10)) THEN "OK"
                      ELSE IF RatLt(numeric_value, Rat(threshold, 1)) THEN "WARNING"
                      ELSE "CRITICAL"

\* _evaluate_threshold with the threshold itself still counted as WARNING
_evaluate_threshold_inclusive(value, threshold, check_id) ==
    LET extracted == numeric_value_of(value)
    IN  IF extracted = None THEN "UNKNOWN"
        ELSE LET numeric_value == The(extracted)
             IN  IF check_id \in zero_is_ok
                 THEN IF RatEq(numeric_value, Rat(0, 1)) THEN "OK"
                      ELSE IF RatLe(numeric_value, Rat(3, 1)) THEN "WARNING"
                      ELSE "CRITICAL"
                 ELSE IF RatLt(numeric_value, Rat(threshold * 8, 10)) THEN "OK"
                      ELSE IF RatLe(numeric_value, Rat(threshold, 1)) THEN "WARNING"
                      ELSE "CRITICAL"

_evaluate_threshold(value, threshold, check_id) ==
    LET extracted == numeric_value_of(value)
    IN  IF extracted = None THEN "UNKNOWN"
        ELSE LET numeric_value == The(extracted)
             IN  IF check_id \in zero_is_ok
                 THEN IF RatEq(numeric_value, Rat(0, 1)) THEN "OK"
                      ELSE IF RatLe(numeric_value, Rat(3, 1)) THEN "WARNING"
                      ELSE "CRITICAL"
                 ELSE IF RatLt(numeric_value, Rat(threshold * 8, 10)) THEN "OK"
                      ELSE IF RatLt(numeric_value, Rat(threshold, 1)) THEN "WARNING"
                      ELSE "CRITICAL"

\* _evaluate_threshold of the root copy: float() of the whole cleaned text,
\* ValueError answered with UNKNOWN
_evaluate_threshold_root(value, threshold, check_id) ==
    LET parsed == PyFloat(Strip(Remove(Remove(value, "%"), CountSuffix)))
    IN  IF parsed = {} THEN "UNKNOWN"
        ELSE LET numeric_value == The(parsed)
             IN  IF check_id \in zero_is_ok
                 THEN IF RatEq(numeric_value, Rat(0, 1)) THEN "OK"
                      ELSE IF RatLe(numeric_value, Rat(3, 1)) THEN "WARNING"
                      ELSE "CRITICAL"
                 ELSE IF RatLt(numeric_value, Rat(threshold * 8, 10)) THEN "OK"
                      ELSE IF RatLt(numeric_value, Rat(threshold, 1)) THEN "WARNING"
                      ELSE "CRITICAL"

\* self._evaluate_threshold(...) as the running copy resolves it
self_evaluate_threshold(value, threshold, check_id) ==
    IF copy = "root"
    THEN _evaluate_threshold_root(value, threshold, check_id)
    ELSE _evaluate_threshold(value, threshold, check_id)

---------------------------------------------------------------------------
(* Demo data.                                                              *)

\* the dict demo_data of _get_demo_os_data
demo_os ==
    [id \in {"OS-001", "OS-002", "OS-003", "OS-004", "OS-005",
             "OS-006", "OS-007", "OS-008", "OS-009", "OS-010"} |->
        CASE id = "OS-001" ->
               Triple(<<"4", "5">>,
                      "OK", Msg("within_range"))
          [] id = "OS-002" ->
               Triple(<<"6", "2", ".", "5">>,
                      "OK", Msg("within_range"))
          [] id = "OS-003" ->
               Triple(<<"2", "3">>,
                      "OK", Msg("within_range"))
          [] id = "OS-004" ->
               Triple(<<"u", "p", " ", "1", "5", " ", "d", "a", "y", "s", ",", " ", "4", " ",
                        "h", "o", "u", "r", "s", ",", " ", "3", "2", " ", "m", "i", "n", "u",
                        "t", "e", "s">>,
                      "OK", Msg("confirmed"))
          [] id = "OS-005" ->
               Triple(<<"0">>,
                      "OK", Msg("demo_no_zombie"))
          [] id = "OS-006" ->
               Triple(<<"1", ".", "2", "5">>,
                      "OK", Msg("within_range"))
          [] id = "OS-007" ->
               Triple(<<"1", "2", ".", "3">>,
                      "OK", Msg("within_range"))
          [] id = "OS-008" ->
               Triple(<<"3", "4", "5", "6">>,
                      "OK", Msg("within_range"))
          [] id = "OS-009" ->
               Triple(<<"1", "2", "8">>,
                      "OK", Msg("within_range"))
          [] id = "OS-010" ->
               Triple(<<"5", ".", "1", "5", ".", "0", "-", "9", "1", "-", "g", "e", "n", "e",
                        "r", "i", "c">>,
                      "OK", Msg("confirmed"))]

_get_demo_os_data(item_id) ==
    IF item_id \in DOMAIN demo_os THEN demo_os[item_id]
    ELSE Triple(NA, "UNKNOWN", Msg("no_demo_data"))

\* the dict demo_data of _get_demo_k8s_data
demo_k8s ==
    [id \in {"K8S-001", "K8S-002", "K8S-003", "K8S-004", "K8S-005",
             "K8S-006", "K8S-007", "K8S-008", "K8S-009", "K8S-010"} |->
        CASE id = "K8S-001" ->
               Triple(<<"m", "a", "s", "t", "e", "r", "-", "0", "1", ":", "R", "e", "a", "d",
                        "y", "\n", "w", "o", "r", "k", "e", "r", "-", "0", "1", ":", "R", "e",
                        "a", "d", "y", "\n", "w", "o", "r", "k", "e", "r", "-", "0", "2", ":",
                        "R", "e", "a", "d", "y", "\n", "w", "o", "r", "k", "e", "r", "-", "0",
                        "3", ":", "R", "e", "a", "d", "y">>,
                      "OK", Msg("demo_nodes_ok"))
          [] id = "K8S-002" ->
               Triple(<<"m", "a", "s", "t", "e", "r", "-", "0", "1", ":", "3", "2", "%", "\n",
                        "w", "o", "r", "k", "e", "r", "-", "0", "1", ":", "4", "5", "%", "\n",
                        "w", "o", "r", "k", "e", "r", "-", "0", "2", ":", "3", "8", "%", "\n",
                        "w", "o", "r", "k", "e", "r", "-", "0", "3", ":", "5", "2", "%">>,
                      "OK", Msg("demo_cpu_ok"))
          [] id = "K8S-003" ->
               Triple(<<"m", "a", "s", "t", "e", "r", "-", "0", "1", ":", "5", "8", "%", "\n",
                        "w", "o", "r", "k", "e", "r", "-", "0", "1", ":", "6", "2", "%", "\n",
                        "w", "o", "r", "k", "e", "r", "-", "0", "2", ":", "5", "5", "%", "\n",
                        "w", "o", "r", "k", "e", "r", "-", "0", "3", ":", "7", "1", "%">>,
                      "OK", Msg("demo_mem_ok"))
          [] id = "K8S-004" ->
               Triple(<<"c", "o", "r", "e", "d", "n", "s", "-", "5", "d", "7", "8", "c", "9",
                        "8", "6", "9", "d", "-", "a", "b", "c", "1", "2", ":", "R", "u", "n",
                        "n", "i", "n", "g", "\n", "c", "o", "r", "e", "d", "n", "s", "-", "5",
                        "d", "7", "8", "c", "9", "8", "6", "9", "d", "-", "d", "e", "f", "3",
                        "4", ":", "R", "u", "n", "n", "i", "n", "g", "\n", "e", "t", "c", "d",
                        "-", "m", "a", "s", "t", "e", "r", "-", "0", "1", ":", "R", "u", "n",
                        "n", "i", "n", "g", "\n", "k", "u", "b", "e", "-", "a", "p", "i", "s",
                        "e", "r", "v", "e", "r", "-", "m", "a", "s", "t", "e", "r", "-", "0",
                        "1", ":", "R", "u", "n", "n", "i", "n", "g", "\n", "k", "u", "b", "e",
                        "-", "c", "o", "n", "t", "r", "o", "l", "l", "e", "r", "-", "m", "a",
                        "n", "a", "g", "e", "r", "-", "m", "a", "s", "t", "e", "r", "-", "0",
                        "1", ":", "R", "u", "n", "n", "i", "n", "g", "\n", "k", "u", "b", "e",
                        "-", "p", "r", "o", "x", "y", "-", "x", "x", "x", "x", "x", ":", "R",
                        "u", "n", "n", "i", "n", "g", "\n", "k", "u", "b", "e", "-", "s", "c",
                        "h", "e", "d", "u", "l", "e", "r", "-", "m", "a", "s", "t", "e", "r",
                        "-", "0", "1", ":", "R", "u", "n", "n", "i", "n", "g">>,
                      "OK", Msg("demo_syspods_ok"))
          [] id = "K8S-005" ->
               Triple(<<"p", "v", "-", "d", "a", "t", "a", "-", "0", "1", ":", "B", "o", "u",
                        "n", "d", "\n", "p", "v", "-", "d", "a", "t", "a", "-", "0", "2", ":",
                        "B", "o", "u", "n", "d", "\n", "p", "v", "-", "l", "o", "g", "s", "-",
                        "0", "1", ":", "B", "o", "u", "n", "d">>,
                      "OK", Msg("demo_pv_ok"))
          [] id = "K8S-006" ->
               Triple(<<"d", "a", "t", "a", "-", "p", "v", "c", "-", "0", "1", ":", "B", "o",
                        "u", "n", "d", "\n", "d", "a", "t", "a", "-", "p", "v", "c", "-", "0",
                        "2", ":", "B", "o", "u", "n", "d", "\n", "l", "o", "g", "s", "-", "p",
                        "v", "c", "-", "0", "1", ":", "B", "o", "u", "n", "d">>,
                      "OK", Msg("demo_pvc_ok"))
          [] id = "K8S-007" ->
               Triple(<<"3">>,
                      "OK", Msg("demo_events_ok"))
          [] id = "K8S-008" ->
               Triple(<<"0">>,
                      "OK", Msg("demo_no_notready"))
          [] id = "K8S-009" ->
               Triple(<<"v", "1", ".", "2", "8", ".", "4">>,
                      "OK", Msg("confirmed"))
          [] id = "K8S-010" ->
               Triple(<<"8">>,
                      "OK", Msg("demo_namespaces"))]

_get_demo_k8s_data(item_id) ==
    IF item_id \in DOMAIN demo_k8s THEN demo_k8s[item_id]
    ELSE Triple(NA, "UNKNOWN", Msg("no_demo_data"))

\* the dict demo_data of _get_demo_svc_data
demo_svc ==
    [id \in {"SVC-001", "SVC-002", "SVC-003", "SVC-004", "SVC-005",
             "SVC-006", "SVC-007", "SVC-008", "SVC-009", "SVC-010"} |->
        CASE id = "SVC-001" ->
               Triple(<<"n", "g", "i", "n", "x", "-", "d", "e", "p", "l", "o", "y", "m", "e",
                        "n", "t", ":", "3", "/", "3", "\n", "a", "p", "i", "-", "s", "e", "r",
                        "v", "e", "r", ":", "2", "/", "2", "\n", "w", "o", "r", "k", "e", "r",
                        "-", "d", "e", "p", "l", "o", "y", "m", "e", "n", "t", ":", "5", "/",
                        "5", "\n", "r", "e", "d", "i", "s", ":", "1", "/", "1", "\n", "p", "o",
                        "s", "t", "g", "r", "e", "s", ":", "1", "/", "1">>,
                      "OK", Msg("demo_deploy_ok"))
          [] id = "SVC-002" ->
               Triple(<<"m", "y", "s", "q", "l", ":", "1", "/", "1", "\n", "r", "e", "d", "i",
                        "s", ":", "3", "/", "3", "\n", "e", "l", "a", "s", "t", "i", "c", "s",
                        "e", "a", "r", "c", "h", ":", "3", "/", "3">>,
                      "OK", Msg("demo_sts_ok"))
          [] id = "SVC-003" ->
               Triple(<<"f", "l", "u", "e", "n", "t", "d", ":", "4", "/", "4", "\n", "n", "o",
                        "d", "e", "-", "e", "x", "p", "o", "r", "t", "e", "r", ":", "4", "/",
                        "4", "\n", "k", "u", "b", "e", "-", "p", "r", "o", "x", "y", ":", "4",
                        "/", "4">>,
                      "OK", Msg("demo_ds_ok"))
          [] id = "SVC-004" ->
               Triple(<<"0">>,
                      "OK", Msg("demo_no_endpointless"))
          [] id = "SVC-005" ->
               Triple(<<"5">>,
                      "OK", Msg("demo_ingress"))
          [] id = "SVC-006" ->
               Triple(<<"0">>,
                      "OK", Msg("demo_no_restarts"))
          [] id = "SVC-007" ->
               Triple(<<"0">>,
                      "OK", Msg("demo_no_pending"))
          [] id = "SVC-008" ->
               Triple(<<"0">>,
                      "OK", Msg("demo_no_failed_pod"))
          [] id = "SVC-009" ->
               Triple(<<"3">>,
                      "OK", Msg("demo_cronjobs"))
          [] id = "SVC-010" ->
               Triple(<<"0">>,
                      "OK", Msg("demo_no_failed_job"))]

_get_demo_svc_data(item_id) ==
    IF item_id \in DOMAIN demo_svc THEN demo_svc[item_id]
    ELSE Triple(NA, "UNKNOWN", Msg("no_demo_data"))

---------------------------------------------------------------------------
(* The body of one loop iteration of each category.  Each yields the       *)
(* exception raised ("none" when the CheckResult was appended), the        *)
(* CheckResult, and the locals stdout, stderr, returncode, the route taken *)
(* and the text handed to the evaluator.                                   *)

Iteration(fault_, result, stdout, bound, route, eval_text) ==
    [fault |-> fault_, result |-> result, stdout |-> stdout, bound |-> bound,
     route |-> route, eval_text |-> eval_text]

\* the three messages of the threshold route of run_os_checks, lines 177-182:
\* item['unit'] is subscripted, so an item without the key raises KeyError
os_threshold_message(status, item) ==
    IF status = "OK" THEN Msg("within_range")
    ELSE IF status = "WARNING"
         THEN MsgThreshold("near_threshold", The(item.threshold), The(item.unit))
         ELSE MsgThreshold("threshold_exceeded", The(item.threshold), The(item.unit))

os_iteration(item, demo, out) ==
    IF demo
    THEN LET d == _get_demo_os_data(item.id)
         IN  Iteration("none",
                       CheckResult(item, "OS", d.status, d.value, d.message, d.value),
                       <<>>, FALSE, "demo", <<>>)
    ELSE IF out.returncode # 0 \/ out.stdout = <<>>
    THEN LET message == IF out.stderr # <<>>
                        THEN MsgText("command_failed", out.stderr)
                        ELSE Msg("no_result")
         IN  Iteration("none",
                       CheckResult(item, "OS", "UNKNOWN", NA, message, NA),
                       out.stdout, TRUE, "failed", <<>>)
    ELSE IF item.threshold # None
    THEN LET status == self_evaluate_threshold(out.stdout, The(item.threshold),
                                               item.id)
         IN  IF status # "OK" /\ item.unit = None
             THEN Iteration("KeyError", Msg("none"), out.stdout, TRUE,
                            "threshold", out.stdout)
             ELSE Iteration("none",
                            CheckResult(item, "OS", status, out.stdout,
                                        os_threshold_message(status, item),
                                        out.stdout),
                            out.stdout, TRUE, "threshold", out.stdout)
    ELSE Iteration("none",
                   CheckResult(item, "OS", "OK", out.stdout, Msg("confirmed"),
                               out.stdout),
                   out.stdout, TRUE, "none", <<>>)

\* scan_usage keeping the last parseable row instead of the largest
RECURSIVE scan_usage_last(_, _, _)
scan_usage_last(lines, target_idx, acc) ==
    IF lines = <<>> THEN acc
    ELSE LET parts == SplitWs(lines[1])
             val   == IF Len(parts) >= 5
                      THEN PyFloat(Remove(parts[target_idx + 1], "%"))
                      ELSE None
         IN  scan_usage_last(Tail(lines), target_idx,
                             IF val = None THEN acc
                             ELSE [max_usage        |-> The(val),
                                   valid_data_found |-> TRUE])

\* K8S-002 / K8S-003, lines 235-255: the loop over the table rows
RECURSIVE scan_usage(_, _, _)
scan_usage(lines, target_idx, acc) ==
    IF lines = <<>> THEN acc
    ELSE LET parts == SplitWs(lines[1])
             val   == IF Len(parts) >= 5
                      THEN PyFloat(Remove(parts[target_idx + 1], "%"))
                      ELSE None
         IN  scan_usage(Tail(lines), target_idx,
                        IF val = None THEN acc
                        ELSE [max_usage        |-> RatMax(acc.max_usage, The(val)),
                              valid_data_found |-> TRUE])

W_NAME == <<"N", "A", "M", "E">>

W_CPU == <<"C", "P", "U">>

\* K8S-002 / K8S-003, lines 235-258: max_usage and valid_data_found
node_usage(stdout, check_id) ==
    LET all   == Split(Strip(stdout), "\n")
        lines == IF Len(all) > 0 /\ (Contains(all[1], W_NAME) \/ Contains(all[1], W_CPU))
                 THEN Tail(all) ELSE all
        target_idx == IF check_id = "K8S-002" THEN 2 ELSE 4
    IN  scan_usage(lines, target_idx,
                   [max_usage |-> Rat(0, 1), valid_data_found |-> FALSE])

\* ratio_match with the 70% cut-off still counted as WARNING
ratio_match_at_least(stdout, expected) ==
    LET lines       == SelectSeq(Split(Strip(stdout), "\n"),
                                 LAMBDA l : l # <<>> /\ l # NA)
        ok_count    == Len(SelectSeq(lines, LAMBDA line : Contains(line, expected)))
        total_count == Len(lines)
    IN  IF total_count = 0
        THEN [status |-> "UNKNOWN", message |-> Msg("no_targets")]
        ELSE IF ok_count = total_count
        THEN [status |-> "OK", message |-> MsgCount("all_items_ok", ok_count, total_count)]
        ELSE IF ok_count * 10 >= total_count * 7
        THEN [status |-> "WARNING",
              message |-> MsgCount("some_items_bad", ok_count, total_count)]
        ELSE [status |-> "CRITICAL",
              message |-> MsgCount("many_items_bad", ok_count, total_count)]

\* the expected-marker evaluation of run_k8s_checks, lines 266-281
ratio_match(stdout, expected) ==
    LET lines       == SelectSeq(Split(Strip(stdout), "\n"),
                                 LAMBDA l : l # <<>> /\ l # NA)
        ok_count    == Len(SelectSeq(lines, LAMBDA line : Contains(line, expected)))
        total_count == Len(lines)
    IN  IF total_count = 0
        THEN [status |-> "UNKNOWN", message |-> Msg("no_targets")]
        ELSE IF ok_count = total_count
        THEN [status |-> "OK", message |-> MsgCount("all_items_ok", ok_count, total_count)]
        ELSE IF ok_count * 10 > total_count * 7
        THEN [status |-> "WARNING",
              message |-> MsgCount("some_items_bad", ok_count, total_count)]
        ELSE [status |-> "CRITICAL",
              message |-> MsgCount("many_items_bad", ok_count, total_count)]

\* the four messages of the threshold route of run_k8s_checks, lines 285-296
k8s_threshold_message(status, item) ==
    LET unit == IF item.unit = None THEN "" ELSE The(item.unit)
    IN  IF status = "OK" THEN Msg("within_range")
        ELSE IF status = "WARNING"
        THEN MsgThreshold("near_threshold", The(item.threshold), unit)
        ELSE IF status = "CRITICAL"
        THEN MsgThreshold("threshold_exceeded", The(item.threshold), unit)
        ELSE IF item.id \in {"K8S-002", "K8S-003"}
        THEN Msg("metrics_parse_failed")
        ELSE Msg("value_unknown")

W_error == <<"e", "r", "r", "o", "r">>

W_metrics_api == <<"m", "e", "t", "r", "i", "c", "s", " ", "a", "p", "i", " ",
                   "n", "o", "t", " ", "a", "v", "a", "i", "l", "a", "b", "l", "e">>

\* value[:300] if value else "N/A"
display_value(value) == IF value # <<>> THEN Take(value, 300) ELSE NA

\* One iteration of the loop of run_k8s_checks.  prev_stdout and prev_bound
\* are the local stdout as the previous iterations of this call left it: the
\* demo branch and the tool-unavailable branch do not assign it, and line 311
\* reads it.
k8s_iteration(item, demo, kubectl, out, prev_stdout, prev_bound) ==
    IF demo \/ ~kubectl
    THEN LET d == IF demo THEN _get_demo_k8s_data(item.id)
                  ELSE Triple(NA, "UNKNOWN", Msg("kubectl_unavailable"))
             route == IF demo THEN "demo" ELSE "unavailable"
         IN  IF ~prev_bound
             THEN Iteration("UnboundLocalError", Msg("none"), prev_stdout, FALSE,
                            route, <<>>)
             ELSE Iteration("none",
                            CheckResult(item, "Kubernetes", d.status,
                                        display_value(d.value), d.message,
                                        Take(prev_stdout, 500)),
                            prev_stdout, TRUE, route, <<>>)
    ELSE
    LET zero_match == item.id = "K8S-008" /\ out.returncode # 0 /\ out.stdout = <<>>
        stdout     == IF zero_match THEN <<"0">> ELSE out.stdout
        returncode == IF zero_match THEN 0 ELSE out.returncode
        stderr     == out.stderr
        raw_output == Take(stdout, 500)
    IN  IF Contains(PyLower(stderr), W_error) \/ (returncode # 0 /\ stdout = <<>>)
        THEN LET message ==
                     IF Contains(PyLower(stderr), W_metrics_api)
                     THEN Msg("metrics_server_missing")
                     ELSE IF stderr # <<>>
                     THEN MsgText("check_failed", Take(stderr, 100))
                     ELSE Msg("execution_error")
             IN  Iteration("none",
                           CheckResult(item, "Kubernetes", "UNKNOWN", NA, message,
                                       raw_output),
                           stdout, TRUE, "failed", <<>>)
        ELSE
        LET value0 == IF stdout # <<>> /\ stdout # NA THEN stdout ELSE NoData
            usage  == node_usage(stdout, item.id)
            value  == IF item.id \in {"K8S-002", "K8S-003"} /\ usage.valid_data_found
                      THEN PyStrFloat(usage.max_usage)
                      ELSE value0
        IN  IF item.expected # None /\ The(item.expected) # <<>>
            THEN LET r == ratio_match(stdout, The(item.expected))
                 IN  Iteration("none",
                               CheckResult(item, "Kubernetes", r.status,
                                           display_value(value), r.message,
                                           raw_output),
                               stdout, TRUE, "ratio", stdout)
            ELSE IF item.threshold # None
            THEN LET status == _evaluate_threshold(value, The(item.threshold), item.id)
                 IN  Iteration("none",
                               CheckResult(item, "Kubernetes", status,
                                           display_value(value),
                                           k8s_threshold_message(status, item),
                                           raw_output),
                               stdout, TRUE, "threshold", value)
            ELSE Iteration("none",
                           CheckResult(item, "Kubernetes", "OK", display_value(value),
                                       Msg("confirmed"), raw_output),
                           stdout, TRUE, "none", <<>>)

\* the three messages of the threshold route of the root copy's
\* run_k8s_checks
k8s_threshold_message_root(status, item) ==
    LET unit == IF item.unit = None THEN "" ELSE The(item.unit)
    IN  IF status = "OK" THEN Msg("within_range")
        ELSE IF status = "WARNING"
        THEN MsgThreshold("near_threshold", The(item.threshold), unit)
        ELSE MsgThreshold("threshold_exceeded", The(item.threshold), unit)

\* One iteration of the loop of run_k8s_checks of the root copy: the reply
\* of the probe is taken as it is, the threshold evaluator is handed stdout,
\* and raw_output is cut from value.
k8s_iteration_root(item, demo, kubectl, out) ==
    IF demo \/ ~kubectl
    THEN LET d == IF demo THEN _get_demo_k8s_data(item.id)
                  ELSE Triple(NA, "UNKNOWN", Msg("kubectl_unavailable"))
         IN  Iteration("none",
                       CheckResult(item, "Kubernetes", d.status,
                                   display_value(d.value), d.message,
                                   Take(d.value, 500)),
                       <<>>, FALSE, IF demo THEN "demo" ELSE "unavailable", <<>>)
    ELSE
    LET stdout == out.stdout
        stderr == out.stderr
    IN  IF Contains(PyLower(stderr), W_error) \/ (out.returncode # 0 /\ stdout = <<>>)
        THEN LET message == IF stderr # <<>>
                            THEN MsgText("check_failed", Take(stderr, 100))
                            ELSE Msg("execution_error")
             IN  Iteration("none",
                           CheckResult(item, "Kubernetes", "UNKNOWN", NA, message, NA),
                           stdout, TRUE, "failed", <<>>)
        ELSE
        LET value == IF stdout # <<>> /\ stdout # NA THEN stdout ELSE NoData
        IN  IF item.expected # None /\ The(item.expected) # <<>>
            THEN LET r == ratio_match(stdout, The(item.expected))
                 IN  Iteration("none",
                               CheckResult(item, "Kubernetes", r.status,
                                           display_value(value), r.message,
                                           Take(value, 500)),
                               stdout, TRUE, "ratio", stdout)
            ELSE IF item.threshold # None
            THEN LET status == _evaluate_threshold_root(stdout, The(item.threshold),
                                                        item.id)
                 IN  Iteration("none",
                               CheckResult(item, "Kubernetes", status,
                                           display_value(value),
                                           k8s_threshold_message_root(status, item),
                                           Take(value, 500)),
                               stdout, TRUE, "threshold", stdout)
            ELSE Iteration("none",
                           CheckResult(item, "Kubernetes", "OK", display_value(value),
                                       Msg("confirmed"), Take(value, 500)),
                           stdout, TRUE, "none", <<>>)

\* replica_issues reading the replicas after the first colon of the line
RECURSIVE replica_issues_first_colon(_)
replica_issues_first_colon(lines) ==
    IF lines = <<>> THEN <<>>
    ELSE LET line     == lines[1]
             parts    == Split(line, ":")
             replicas == IF Len(parts) >= 2 THEN parts[2] ELSE parts[1]
             pair     == Split(replicas, "/")
             issue    == /\ Contains(line, <<"/">>)
                         /\ Len(parts) >= 2
                         /\ Contains(replicas, <<"/">>)
                         /\ Len(pair) = 2
                         /\ pair[1] # pair[2]
         IN  (IF issue THEN <<parts[1]>> ELSE <<>>)
                 \o replica_issues_first_colon(Tail(lines))

\* the names of the mismatched resources, lines 340-352
RECURSIVE replica_issues(_)
replica_issues(lines) ==
    IF lines = <<>> THEN <<>>
    ELSE LET line     == lines[1]
             parts    == Split(line, ":")
             replicas == parts[Len(parts)]
             pair     == Split(replicas, "/")
             issue    == /\ Contains(line, <<"/">>)
                         /\ Len(parts) >= 2
                         /\ Contains(replicas, <<"/">>)
                         /\ Len(pair) = 2
                         /\ pair[1] # pair[2]
         IN  (IF issue THEN <<parts[1]>> ELSE <<>>) \o replica_issues(Tail(lines))

\* replica_match with up to three issues still counted as WARNING
replica_match_three(stdout, value) ==
    LET lines  == SelectSeq(Split(Strip(stdout), "\n"),
                            LAMBDA l : l # <<>> /\ Contains(l, <<":">>) /\ l # NA)
        issues == replica_issues(lines)
    IN  IF Len(lines) = 0 \/ value = NA
        THEN [status |-> "UNKNOWN", message |-> Msg("no_targets")]
        ELSE IF Len(issues) = 0
        THEN [status |-> "OK", message |-> MsgCount("all_resources_ok", Len(lines), 0)]
        ELSE IF Len(issues) <= 3
        THEN [status |-> "WARNING",
              message |-> MsgText("some_resources_bad",
                                  Join(Take(issues, 3), <<",", " ">>))]
        ELSE [status |-> "CRITICAL",
              message |-> MsgCount("many_resources_bad", Len(issues), 0)]

\* the replica_match evaluation of run_service_checks, lines 339-365
replica_match(stdout, value) ==
    LET lines  == SelectSeq(Split(Strip(stdout), "\n"),
                            LAMBDA l : l # <<>> /\ Contains(l, <<":">>) /\ l # NA)
        issues == replica_issues(lines)
    IN  IF Len(lines) = 0 \/ value = NA
        THEN [status |-> "UNKNOWN", message |-> Msg("no_targets")]
        ELSE IF Len(issues) = 0
        THEN [status |-> "OK", message |-> MsgCount("all_resources_ok", Len(lines), 0)]
        ELSE IF Len(issues) <= 2
        THEN [status |-> "WARNING",
              message |-> MsgText("some_resources_bad",
                                  Join(Take(issues, 3), <<",", " ">>))]
        ELSE [status |-> "CRITICAL",
              message |-> MsgCount("many_resources_bad", Len(issues), 0)]

\* the three messages of the threshold route of run_service_checks, 369-374
svc_threshold_message(status, item) ==
    LET unit == IF item.unit = None THEN "" ELSE The(item.unit)
    IN  IF status = "OK" THEN Msg("normal")
        ELSE IF status = "WARNING"
        THEN MsgThreshold("near_threshold", The(item.threshold), unit)
        ELSE MsgThreshold("threshold_exceeded", The(item.threshold), unit)

\* One iteration of the loop of run_service_checks.
svc_iteration(item, demo, kubectl, out) ==
    IF demo \/ ~kubectl
    THEN LET d == IF demo THEN _get_demo_svc_data(item.id)
                  ELSE Triple(NA, "UNKNOWN", Msg("kubectl_unavailable"))
         IN  Iteration("none",
                       CheckResult(item, "Services", d.status, display_value(d.value),
                                   d.message, Take(d.value, 500)),
                       <<>>, FALSE, IF demo THEN "demo" ELSE "unavailable", <<>>)
    ELSE
    LET stdout == out.stdout
        stderr == out.stderr
    IN  IF Contains(PyLower(stderr), W_error) \/ (out.returncode # 0 /\ stdout = <<>>)
        THEN LET message == IF stderr # <<>>
                            THEN MsgText("check_failed", Take(stderr, 100))
                            ELSE Msg("execution_error")
             IN  Iteration("none",
                           CheckResult(item, "Services", "UNKNOWN", NA, message, NA),
                           stdout, TRUE, "failed", <<>>)
        ELSE
        LET value == IF stdout # <<>> /\ stdout # NA THEN stdout ELSE <<"0">>
        IN  IF item.check_type = "replica_match"
            THEN LET r == replica_match(stdout, value)
                 IN  Iteration("none",
                               CheckResult(item, "Services", r.status,
                                           display_value(value), r.message,
                                           Take(value, 500)),
                               stdout, TRUE, "replica", stdout)
            ELSE IF item.threshold # None
            THEN LET status == self_evaluate_threshold(stdout, The(item.threshold),
                                                       item.id)
                 IN  Iteration("none",
                               CheckResult(item, "Services", status,
                                           display_value(value),
                                           svc_threshold_message(status, item),
                                           Take(value, 500)),
                               stdout, TRUE, "threshold", stdout)
            ELSE Iteration("none",
                           CheckResult(item, "Services", "OK", display_value(value),
                                       Msg("confirmed"), Take(value, 500)),
                           stdout, TRUE, "none", <<>>)

---------------------------------------------------------------------------
(* The probe-execution collaborator.  The command of an item is opaque to  *)
(* the checker; here it names the shape of output the command prints, and  *)
(* _run_command draws one outcome of that shape, or a failure.             *)

W_timed_out ==
    <<"C", "o", "m", "m", "a", "n", "d", " ", "t", "i", "m", "e", "d", " ", "o", "u", "t">>

W_metrics_unavailable ==
    <<"e", "r", "r", "o", "r", ":", " ", "M", "e", "t", "r", "i", "c", "s", " ", "A", "P",
          "I", " ", "n", "o", "t", " ", "a", "v", "a", "i", "l", "a", "b", "l", "e">>

W_no_resources ==
    <<"N", "o", " ", "r", "e", "s", "o", "u", "r", "c", "e", "s", " ", "f", "o", "u", "n",
          "d", " ", "i", "n", " ", "d", "e", "f", "a", "u", "l", "t", " ", "n", "a", "m", "e",
          "s", "p", "a", "c", "e", ".">>

W_forbidden ==
    <<"E", "r", "r", "o", "r", " ", "f", "r", "o", "m", " ", "s", "e", "r", "v", "e", "r",
          " ", "(", "F", "o", "r", "b", "i", "d", "d", "e", "n", ")", ":", " ", "n", "o", "d",
          "e", "s", " ", "i", "s", " ", "f", "o", "r", "b", "i", "d", "d", "e", "n">>

W_deprecated ==
    <<"W", "a", "r", "n", "i", "n", "g", ":", " ", "v", "1", " ", "C", "o", "m", "p", "o",
          "n", "e", "n", "t", "S", "t", "a", "t", "u", "s", " ", "i", "s", " ", "d", "e", "p",
          "r", "e", "c", "a", "t", "e", "d">>

W_no_such_file ==
    <<"[", "E", "r", "r", "n", "o", " ", "2", "]", " ", "N", "o", " ", "s", "u", "c", "h",
          " ", "f", "i", "l", "e", " ", "o", "r", " ", "d", "i", "r", "e", "c", "t", "o", "r",
          "y">>

Proc(stdout, stderr, returncode) ==
    [stdout |-> stdout, stderr |-> stderr, returncode |-> returncode]

\* what a command prints when it does not deliver its listing
FailedRuns ==
    {Proc(<<>>, <<>>, 0),
     Proc(<<>>, <<>>, 1),
     Proc(<<>>, W_no_resources \o <<"\n">>, 1),
     Proc(<<>>, W_metrics_unavailable \o <<"\n">>, 1),
     Proc(NA \o <<"\n">>, <<>>, 0)}

\* the same output with the standard-error texts a successful run may carry
WithStderr(stdout, returncode) ==
    {Proc(stdout, <<>>, returncode),
     Proc(stdout, W_deprecated \o <<"\n">>, returncode),
     Proc(stdout, W_forbidden \o <<"\n">>, returncode)}

W_load == <<"l", "o", "a", "d", ":", " ">>

W_uptime == <<"u", "p", " ", "1", "5", " ", "d", "a", "y", "s">>

\* a numeric reading: bare, as a percentage, as a decimal, after prose
CountRuns ==
    UNION {{Proc(NatToDigits(n) \o <<"\n">>, <<>>, 0),
            Proc(<<" ">> \o NatToDigits(n) \o <<"%", "\n">>, <<>>, 0),
            Proc(NatToDigits(n) \o <<".", "5", "\n">>, <<>>, 0),
            Proc(W_load \o NatToDigits(n) \o <<" ", "%">>, <<>>, 0)} : n \in 0..MaxValue}
    \cup {Proc(t, <<>>, 0) : t \in {<<"4", "5">>, <<"6", "3", ".", "9">>, <<"6", "4">>, <<"7", "0">>,
                                     <<"7", "9", ".", "9">>, <<"8", "0">>, <<"8", "5">>,
                                     <<"u", "n", "k", "n", "o", "w", "n">>}}
    \cup WithStderr(<<"2", "\n">>, 0)
    \cup WithStderr(<<"0", "\n">>, 1)

W_running == <<"p", "o", "d", "-", "a", " ", " ", " ", "R", "u", "n", "n", "i", "n", "g">>

W_pending == <<"p", "o", "d", "-", "b", " ", " ", " ", "P", "e", "n", "d", "i", "n", "g">>

Repeat(line, n) == [k \in 1..n |-> line]

\* a per-resource listing of total lines of which matching carry the marker,
\* optionally with an N/A line or a blank line among them
ListingRuns ==
    UNION {LET lines == Repeat(W_running, m) \o Repeat(W_pending, t - m)
           IN  {Proc(Join(lines, <<"\n">>) \o <<"\n">>, <<>>, 0),
                Proc(Join(lines \o <<NA>>, <<"\n">>), <<>>, 0),
                Proc(Join(<<W_running, <<>>>> \o lines, <<"\n">>), <<>>, 1)}
           : <<t, m>> \in {p \in (0..MaxLines) \X (0..MaxLines) : p[2] <= p[1]}}

W_NotReady == <<"N", "o", "t", "R", "e", "a", "d", "y">>

\* a node listing "name:state" of up to MaxNodes nodes, each Ready or NotReady
NodeRuns ==
    UNION {{Proc(Join([k \in 1..n |-> <<"n", Digits[k + 1], ":">> \o states[k]],
                      <<"\n">>) \o <<"\n">>, <<>>, 0)
            : states \in [1..n -> {<<"R", "e", "a", "d", "y">>, W_NotReady}]}
           : n \in 1..MaxNodes}

ReplicaLineKinds ==
    {"ok", "bad", "noslash", "twoslash", "nocolon", "twocolon", "slashname"}

\* line k of a replica listing: resource rk with the replicas text of the kind
ReplicaLine(kind, k) ==
    LET name == <<"r", Digits[k + 1]>>
    IN  CASE kind = "ok"       -> name \o <<":", "3", "/", "3">>
          [] kind = "bad"      -> name \o <<":", "2", "/", "3">>
          [] kind = "noslash"  -> name \o <<":", "<", "n", "o", "n", "e", ">">>
          [] kind = "twoslash" -> name \o <<":", "1", "/", "2", "/", "3">>
          [] kind = "nocolon"  -> name \o <<" ", "3", "/", "3">>
          [] kind = "twocolon" -> <<"n", "s", ":">> \o name \o <<":", "1", "/", "2">>
          [] kind = "slashname" -> <<"a", "/">> \o name \o <<":", "3">>

ReplicaRuns ==
    UNION {{Proc(Join([k \in 1..n |-> ReplicaLine(kinds[k], k)], <<"\n">>) \o <<"\n">>,
                 <<>>, 0)
            : kinds \in [1..n -> ReplicaLineKinds]} : n \in 0..MaxReplicaLines}

W_top_header ==
    <<"N", "A", "M", "E", " ", " ", " ", " ", "C", "P", "U", "(", "c", "o", "r", "e", "s",
          ")", " ", " ", " ", "C", "P", "U", "%", " ", " ", " ", "M", "E", "M", "O", "R", "Y",
          "(", "b", "y", "t", "e", "s", ")", " ", " ", " ", "M", "E", "M", "O", "R", "Y", "%">>

NodeRowKinds == {"n32", "n45", "n85", "unknown", "short"}

NodeRow(kind) ==
    CASE kind = "n32"     -> <<"n", "o", "d", "e", "1", " ", "1", "0", "m", " ", "3", "2", "%", " ", "5", "0", "0",
          "M", "i", " ", "5", "8", "%">>
      [] kind = "n45"     -> <<"n", "o", "d", "e", "2", " ", "2", "0", "m", " ", "4", "5", "%", " ", "6", "0", "0",
          "M", "i", " ", "7", "1", "%">>
      [] kind = "n85"     -> <<"n", "o", "d", "e", "3", " ", "3", "4", "0", "0", "m", " ", "8", "5", "%", " ", "7",
          "0", "0", "M", "i", " ", "7", "0", "%">>
      [] kind = "unknown" -> <<"n", "o", "d", "e", "4", " ", "<", "u", "n", "k", "n", "o", "w", "n", ">", " ", "<",
          "u", "n", "k", "n", "o", "w", "n", ">", " ", "<", "u", "n", "k", "n", "o", "w", "n",
          ">", " ", "<", "u", "n", "k", "n", "o", "w", "n", ">">>
      [] kind = "short"   -> <<"n", "o", "d", "e", "5", " ", "1", "0", "m", " ", "3", "2", "%">>

\* a node-utilization table of up to MaxNodes rows, with or without header
TopRuns ==
    UNION {{Proc(Join((IF header THEN <<W_top_header>> ELSE <<>>)
                      \o [k \in 1..n |-> NodeRow(rows[k])], <<"\n">>) \o <<"\n">>,
                 <<>>, 0)
            : rows \in [1..n -> NodeRowKinds], header \in BOOLEAN} : n \in 0..MaxNodes}

W_node_ready == <<"n", "o", "d", "e", "1", " ", " ", " ", "R", "e", "a", "d", "y">>

\* a few outcomes of any shape, for catalogs of several items
MiniRuns ==
    {Proc(<<"4", "5">> \o <<"\n">>, <<>>, 0),
     Proc(W_uptime, <<>>, 0),
     Proc(W_node_ready \o <<"\n">> \o W_node_ready, <<>>, 0),
     Proc(<<>>, <<>>, 1)}

\* outputs and error texts around the lengths at which results are cut
LongRuns ==
    {Proc(Repeat("x", n), <<>>, 0) : n \in {300, 301, 500, 501}}
    \cup {Proc(<<>>, Repeat("x", n), 1) : n \in {100, 101}}

\* subprocess.run(command, shell=True, capture_output=True, ...)
ProcessRuns(command) ==
    CASE command = "count"    -> CountRuns \cup FailedRuns
      [] command = "listing"  -> ListingRuns \cup FailedRuns
      [] command = "replicas" -> ReplicaRuns \cup FailedRuns
      [] command = "top"      -> TopRuns \cup FailedRuns
      [] command = "nodes"    -> NodeRuns
      [] command = "mini"     -> MiniRuns
      [] command = "long"     -> LongRuns

\* the (stdout, stderr, returncode) that _run_command can return
_run_command(command) ==
    {Proc(Strip(r.stdout), Strip(r.stderr), r.returncode) : r \in ProcessRuns(command)}
    \cup {Proc(<<>>, W_timed_out, 0 - 1)}
    \cup {Proc(<<>>, W_no_such_file, 0 - 1)}

---------------------------------------------------------------------------
(* Check catalogs: config['check_items'].  A category key that is missing  *)
(* from the file is absent.                                                *)

Item(id, command, threshold, unit, expected, check_type) ==
    [id |-> id, command |-> command, threshold |-> threshold, unit |-> unit,
     expected |-> expected, check_type |-> check_type]

Category(items) == [present |-> TRUE, items |-> items]

Absent == [present |-> FALSE, items |-> <<>>]

Catalog(os, kubernetes, services) ==
    [os |-> os, kubernetes |-> kubernetes, services |-> services]

W_Running == <<"R", "u", "n", "n", "i", "n", "g">>

W_Ready == <<"R", "e", "a", "d", "y">>

PercentItem(id, command, threshold) ==
    Item(id, command, Some(threshold), Some("%"), None, "")

CountItem(id, command, threshold) ==
    Item(id, command, Some(threshold), Some("count"), None, "")

PlainItem(id, command) == Item(id, command, None, None, None, "")

\* one item alone in its category
Single(category, item) ==
    Catalog(Category(IF category = "OS" THEN <<item>> ELSE <<>>),
            Category(IF category = "Kubernetes" THEN <<item>> ELSE <<>>),
            Category(IF category = "Services" THEN <<item>> ELSE <<>>))

Catalogs ==
    { \* items of every category and route side by side
      Catalog(Category(<<PercentItem("OS-001", "mini", 80), PlainItem("OS-004", "mini")>>),
              Category(<<Item("K8S-001", "mini", None, None, Some(W_Ready), ""),
                         PlainItem("K8S-009", "mini")>>),
              Category(<<CountItem("SVC-005", "mini", 10)>>)),
      \* an item that has no canned demo entry, and a missing category key
      Catalog(Category(<<PlainItem("OS-011", "mini")>>),
              Absent,
              Category(<<PlainItem("SVC-011", "mini"), CountItem("SVC-009", "mini", 10)>>)),
      Catalog(Absent,
              Category(<<PlainItem("K8S-011", "mini"), CountItem("K8S-010", "mini", 10)>>),
              Absent),
      \* threshold items
      Single("OS", PercentItem("OS-001", "count", 80)),
      Single("OS", PercentItem("OS-003", "count", 10)),
      Single("OS", CountItem("OS-005", "count", 1)),
      \* a threshold item that carries no unit key, behind three plain items
      Catalog(Category(<<PlainItem("OS-004", "mini"), PlainItem("OS-010", "mini"),
                         PlainItem("OS-012", "mini"),
                         Item("OS-009", "mini", Some(10), None, None, "")>>),
              Category(<<>>),
              Category(<<>>)),
      Single("Kubernetes", CountItem("K8S-007", "count", 10)),
      Single("Kubernetes", CountItem("K8S-008", "count", 1)),
      Single("Services", CountItem("SVC-004", "count", 5)),
      Single("Services", CountItem("SVC-006", "count", 1)),
      Single("Services", CountItem("SVC-007", "count", 10)),
      Single("Services", CountItem("SVC-008", "count", 80)),
      Single("Services", CountItem("SVC-010", "count", 5)),
      Single("Services", CountItem("SVC-005", "count", 10)),
      Single("Services", PercentItem("SVC-012", "count", 80)),
      \* expected-marker items
      Single("Kubernetes", Item("K8S-004", "listing", None, None, Some(W_Running), "")),
      Single("Kubernetes", Item("K8S-001", "nodes", None, None, Some(W_Ready), "")),
      \* replica_match items
      Single("Services", Item("SVC-001", "replicas", None, None, None, "replica_match")),
      \* node-utilization items
      Single("Kubernetes", PercentItem("K8S-002", "top", 80)),
      Single("Kubernetes", PercentItem("K8S-003", "top", 80)),
      \* the catalog of an unreadable configuration file, lines 49-50
      Catalog(Category(<<>>), Category(<<>>), Category(<<>>)),
      \* long outputs
      Single("OS", PlainItem("OS-010", "long")),
      Single("Kubernetes", PlainItem("K8S-009", "long")),
      Single("Services", PlainItem("SVC-011", "long")),
      \* items that declare a key their category's loop does not read
      Single("OS", Item("OS-013", "mini", None, None, Some(W_Ready), "")),
      Single("Kubernetes", Item("K8S-012", "replicas", None, None, None, "replica_match")),
      Single("Services", Item("SVC-013", "listing", None, None, Some(W_Running), "")),
      \* items that declare several of the keys
      Single("Kubernetes", Item("K8S-005", "mini", Some(10), Some("count"),
                                Some(W_Ready), "")),
      Single("Services", Item("SVC-002", "mini", Some(10), Some("count"),
                              Some(W_Ready), "replica_match")) }

---------------------------------------------------------------------------
(* run_all_checks as a state machine: one step per loop iteration.         *)

NoOutcome == Proc(<<>>, <<>>, 0)

\* the locals of a loop iteration that the properties read
Locals(check_id, category, executed, out, it) ==
    [check_id   |-> check_id,
     category   |-> category,
     executed   |-> executed,       \* whether _run_command was called
     out        |-> out,            \* what _run_command returned
     stdout     |-> it.stdout,      \* the local stdout after the iteration
     bound      |-> it.bound,       \* whether stdout is bound in this call
     route      |-> it.route,
     eval_text  |-> it.eval_text]

NoLocals ==
    Locals("", "", FALSE, NoOutcome,
           [stdout |-> <<>>, bound |-> FALSE, route |-> "", eval_text |-> <<>>])

\* _check_kubectl_available(): the values it can return
_check_kubectl_available(demo) == IF demo THEN {TRUE} ELSE BOOLEAN

\* the dict get_summary returns for no results
EmptyDict == <<>>

\* the command line of main.py as far as main reads it after the checks
NoArgs == [json |-> FALSE, quiet |-> FALSE, notify |-> FALSE, notify_on_issues |-> FALSE]

\* main() while the three category loops and get_summary run, lines 170-187
MainStart ==
    [pc        |-> "checks",
     args      |-> NoArgs,
     enabled   |-> {},         \* the channels the notification config enables
     senders   |-> <<>>,       \* manager.senders
     outcomes  |-> <<>>,       \* what each transport did with its message
     sent      |-> <<>>,       \* the senders whose send was called, in order
     results   |-> <<>>,       \* the map send_all / send_if_issues returned
     exit_code |-> None,       \* the exit status of the process
     fault     |-> "none",     \* the exception that left main, or "none"
     at        |-> 0]          \* the line of main.py that raised it

Start ==
    /\ config \in Catalogs
    /\ main = MainStart
    /\ demo_mode \in BOOLEAN
    /\ pc = "idle"
    /\ idx = 1
    /\ results = <<>>
    /\ self_results = <<>>
    /\ kubectl_available = TRUE
    /\ fault = "none"
    /\ last = NoLocals
    /\ summary = EmptyDict
    /\ calls = 0

\* python scripts/checker.py, or scripts/main.py which imports it
Init == copy = "scripts" /\ Start

\* python checker.py, the copy at the root
InitRoot == copy = "root" /\ Start

\* run_all_checks, line 394, and the entry of run_os_checks, lines 160-161
run_all_checks ==
    /\ pc = "idle"
    /\ self_results' = <<>>
    /\ results' = <<>>
    /\ idx' = 1
    /\ last' = NoLocals
    /\ pc' = "os"
    /\ UNCHANGED <<main, copy, config, demo_mode, kubectl_available, fault, summary, calls>>

\* what a loop iteration leaves behind: the appended result, or the exception
\* that propagates out of run_all_checks
Iterate(item, category, executed, out, it) ==
    /\ last' = Locals(item.id, category, executed, out, it)
    /\ IF it.fault = "none"
       THEN /\ results' = Append(results, it.result)
            /\ idx' = idx + 1
            /\ UNCHANGED <<pc, fault>>
       ELSE /\ pc' = "raised"
            /\ fault' = it.fault
            /\ UNCHANGED <<results, idx>>
    /\ UNCHANGED <<main, copy, config, demo_mode, self_results, kubectl_available,
                   summary, calls>>

\* one iteration of the loop of run_os_checks, lines 163-198
run_os_checks_item ==
    /\ pc = "os"
    /\ config.os.present
    /\ idx <= Len(config.os.items)
    /\ LET item == config.os.items[idx]
       IN  \E out \in IF demo_mode THEN {NoOutcome} ELSE _run_command(item.command) :
               Iterate(item, "OS", ~demo_mode, out, os_iteration(item, demo_mode, out))

\* the return of run_os_checks into line 395
run_os_checks_return ==
    /\ pc = "os"
    /\ ~config.os.present \/ idx > Len(config.os.items)
    /\ IF copy = "root" /\ ~config.os.present
       THEN \* the root copy subscripts the key in the loop header
            /\ pc' = "raised"
            /\ fault' = "KeyError"
            /\ UNCHANGED self_results
       ELSE /\ self_results' = self_results \o results
            /\ pc' = "enter_kubernetes"
            /\ UNCHANGED fault
    /\ UNCHANGED <<main, copy, config, demo_mode, idx, results, kubectl_available, last,
                   summary, calls>>

\* run_k8s_checks entered with the locals of the call before still in place,
\* as if stdout were kept on the checker and not in the frame of the call
run_k8s_checks_keeping_locals ==
    /\ pc = "enter_kubernetes"
    /\ results' = <<>>
    /\ idx' = 1
    /\ IF config.kubernetes.present \/ copy = "root"
       THEN \E avail \in _check_kubectl_available(demo_mode) :
                kubectl_available' = avail
       ELSE UNCHANGED kubectl_available
    /\ pc' = "kubernetes"
    /\ UNCHANGED <<main, copy, config, demo_mode, self_results, fault, summary, calls, last>>

\* the entry of run_k8s_checks, lines 203-206
run_k8s_checks ==
    /\ pc = "enter_kubernetes"
    /\ results' = <<>>
    /\ idx' = 1
    /\ last' = NoLocals
    /\ IF config.kubernetes.present \/ copy = "root"
       THEN \E avail \in _check_kubectl_available(demo_mode) :
                kubectl_available' = avail
       ELSE UNCHANGED kubectl_available
    /\ pc' = "kubernetes"
    /\ UNCHANGED <<main, copy, config, demo_mode, self_results, fault, summary, calls>>

\* one iteration of the loop of run_k8s_checks, lines 208-312
run_k8s_checks_item ==
    /\ pc = "kubernetes"
    /\ config.kubernetes.present
    /\ idx <= Len(config.kubernetes.items)
    /\ LET item     == config.kubernetes.items[idx]
           executed == ~demo_mode /\ kubectl_available
       IN  \E out \in IF executed THEN _run_command(item.command) ELSE {NoOutcome} :
               Iterate(item, "Kubernetes", executed, out,
                       IF copy = "root"
                       THEN k8s_iteration_root(item, demo_mode, kubectl_available, out)
                       ELSE k8s_iteration(item, demo_mode, kubectl_available, out,
                                          last.stdout, last.bound))

\* the return of run_k8s_checks into line 396
run_k8s_checks_return ==
    /\ pc = "kubernetes"
    /\ ~config.kubernetes.present \/ idx > Len(config.kubernetes.items)
    /\ IF copy = "root" /\ ~config.kubernetes.present
       THEN \* the root copy subscripts the key in the loop header
            /\ pc' = "raised"
            /\ fault' = "KeyError"
            /\ UNCHANGED self_results
       ELSE /\ self_results' = self_results \o results
            /\ pc' = "enter_services"
            /\ UNCHANGED fault
    /\ UNCHANGED <<main, copy, config, demo_mode, idx, results, kubectl_available, last,
                   summary, calls>>

\* the entry of run_service_checks, lines 316-319
run_service_checks ==
    /\ pc = "enter_services"
    /\ results' = <<>>
    /\ idx' = 1
    /\ last' = NoLocals
    /\ IF config.services.present \/ copy = "root"
       THEN \E avail \in _check_kubectl_available(demo_mode) :
                kubectl_available' = avail
       ELSE UNCHANGED kubectl_available
    /\ pc' = "services"
    /\ UNCHANGED <<main, copy, config, demo_mode, self_results, fault, summary, calls>>

\* one iteration of the loop of run_service_checks, lines 321-390
run_service_checks_item ==
    /\ pc = "services"
    /\ config.services.present
    /\ idx <= Len(config.services.items)
    /\ LET item     == config.services.items[idx]
           executed == ~demo_mode /\ kubectl_available
       IN  \E out \in IF executed THEN _run_command(item.command) ELSE {NoOutcome} :
               Iterate(item, "Services", executed, out,
                       svc_iteration(item, demo_mode, kubectl_available, out))

\* the return of run_service_checks into line 397, and line 398
run_service_checks_return ==
    /\ pc = "services"
    /\ ~config.services.present \/ idx > Len(config.services.items)
    /\ IF copy = "root" /\ ~config.services.present
       THEN \* the root copy subscripts the key in the loop header
            /\ pc' = "raised"
            /\ fault' = "KeyError"
            /\ UNCHANGED self_results
       ELSE /\ self_results' = self_results \o results
            /\ pc' = "done"
            /\ UNCHANGED fault
    /\ UNCHANGED <<main, copy, config, demo_mode, idx, results, kubectl_available, last,
                   summary, calls>>

\* the counter a status is tallied under, lines 417-427
status_key(status) ==
    IF status = "OK" THEN "ok"
    ELSE IF status = "WARNING" THEN "warning"
    ELSE IF status = "CRITICAL" THEN "critical"
    ELSE "unknown"

\* sum(1 for r in self.results if r.status == status)
status_count(res, status) ==
    Cardinality({k \in 1..Len(res) : res[k].status = status})

ZeroCounters == [ok |-> 0, warning |-> 0, critical |-> 0, unknown |-> 0]

\* the loop of lines 417-427 with UNKNOWN results tallied as ok
RECURSIVE count_by_category_lenient(_, _)
count_by_category_lenient(res, by_category) ==
    IF res = <<>> THEN by_category
    ELSE LET r   == Head(res)
             key == IF r.status = "UNKNOWN" THEN "ok" ELSE status_key(r.status)
         IN  count_by_category_lenient(
                 Tail(res),
                 IF r.category \in DOMAIN by_category
                 THEN [by_category EXCEPT ![r.category][key] = @ + 1]
                 ELSE by_category)

\* the loop of lines 417-427 over the results in order
RECURSIVE count_by_category(_, _)
count_by_category(res, by_category) ==
    IF res = <<>> THEN by_category
    ELSE LET r   == Head(res)
             key == status_key(r.status)
         IN  count_by_category(
                 Tail(res),
                 IF r.category \in DOMAIN by_category
                 THEN [by_category EXCEPT ![r.category][key] = @ + 1]
                 ELSE by_category)

\* the dict built by lines 404-415 and filled by the loop
summary_dict(res) ==
    IF res = <<>> THEN EmptyDict
    ELSE [total       |-> Len(res),
          ok          |-> status_count(res, "OK"),
          warning     |-> status_count(res, "WARNING"),
          critical    |-> status_count(res, "CRITICAL"),
          unknown     |-> status_count(res, "UNKNOWN"),
          by_category |-> count_by_category(res, [OS         |-> ZeroCounters,
                                                  Kubernetes |-> ZeroCounters,
                                                  Services   |-> ZeroCounters])]

\* get_summary that takes the results off self.results as it tallies them
get_summary_draining ==
    /\ pc = "done"
    /\ calls < MaxCalls
    /\ summary' = summary_dict(self_results)
    /\ self_results' = <<>>
    /\ calls' = calls + 1
    /\ UNCHANGED <<main, copy, config, demo_mode, pc, idx, results, kubectl_available,
                   fault, last>>

\* a call of get_summary() once run_all_checks has returned
get_summary ==
    /\ pc = "done"
    /\ calls < MaxCalls
    /\ summary' = summary_dict(self_results)
    /\ calls' = calls + 1
    /\ UNCHANGED <<main, copy, config, demo_mode, pc, idx, results, self_results,
                   kubectl_available, fault, last>>

Next ==
    \/ run_all_checks
    \/ run_os_checks_item
    \/ run_os_checks_return
    \/ run_k8s_checks
    \/ run_k8s_checks_item
    \/ run_k8s_checks_return
    \/ run_service_checks
    \/ run_service_checks_item
    \/ run_service_checks_return
    \/ get_summary

Spec == Init /\ [][Next]_vars

SpecRoot == InitRoot /\ [][Next]_vars

---------------------------------------------------------------------------
(* scripts/main.py after the checks, and the NotificationManager of        *)
(* scripts/notifier.py that it drives.                                     *)

\* the most channels a notification config enables
MaxSenders == 2

\* --json, --quiet, --notify, --notify-on-issues
Args == [json : BOOLEAN, quiet : BOOLEAN, notify : BOOLEAN, notify_on_issues : BOOLEAN]

\* the sender classes in the order NotificationManager.__init__ tests them
SenderClasses ==
    <<"EmailSender", "SlackSender", "TeamsSender", "DiscordSender",
      "TelegramSender", "WebhookSender">>

\* the sets of channels a NotificationConfig enables
NotificationConfigs ==
    {enabled \in SUBSET {SenderClasses[k] : k \in 1..Len(SenderClasses)} :
        Cardinality(enabled) <= MaxSenders}

\* NotificationManager.__init__: self.senders
NotificationManager(enabled) ==
    SelectSeq(SenderClasses, LAMBDA name : name \in enabled)

\* what can happen inside the send of one sender: the message is delivered,
\* the transport refuses it (a status that is not a success, or the requests
\* library is missing), or an exception is raised inside the try block
SendOutcomes == {"delivered", "refused", "exception"}

\* XSender.send of an enabled sender: True on delivery; the except clause
\* turns an exception into False
send(outcome) == outcome = "delivered"

\* send_all in which an exception of a sender leaves the loop
send_all_raising(senders, outcomes) ==
    LET stop == IF \E k \in 1..Len(senders) : outcomes[k] = "exception"
                THEN CHOOSE k \in 1..Len(senders) :
                         /\ outcomes[k] = "exception"
                         /\ \A j \in 1..(k - 1) : outcomes[j] # "exception"
                ELSE Len(senders) + 1
    IN  [sent    |-> SubSeq(senders, 1, IF stop > Len(senders) THEN Len(senders) ELSE stop),
         results |-> [k \in 1..(stop - 1) |->
                          [sender |-> senders[k], success |-> send(outcomes[k])]]]

\* NotificationManager.send_all: the senders called and the map returned
send_all(senders, outcomes) ==
    [sent    |-> senders,
     results |-> [k \in 1..Len(senders) |->
                      [sender |-> senders[k], success |-> send(outcomes[k])]]]

\* summary.get(key, 0)
summary_get(dict, key) == IF key \in DOMAIN dict THEN dict[key] ELSE 0

\* send_if_issues that also counts UNKNOWN results as issues
send_if_issues_or_unknown(senders, outcomes, summary_, send_on_warning, send_on_critical) ==
    LET has_warning  == summary_get(summary_, "warning") > 0
                            \/ summary_get(summary_, "unknown") > 0
        has_critical == summary_get(summary_, "critical") > 0
    IN  IF (send_on_warning /\ has_warning) \/ (send_on_critical /\ has_critical)
        THEN send_all(senders, outcomes)
        ELSE [sent |-> <<>>, results |-> <<>>]

\* NotificationManager.send_if_issues
send_if_issues(senders, outcomes, summary_, send_on_warning, send_on_critical) ==
    LET has_warning  == summary_get(summary_, "warning") > 0
        has_critical == summary_get(summary_, "critical") > 0
    IN  IF (send_on_warning /\ has_warning) \/ (send_on_critical /\ has_critical)
        THEN send_all(senders, outcomes)
        ELSE [sent |-> <<>>, results |-> <<>>]

\* main raises: the traceback is printed and the process ends with status 1
MainRaised(fault_, line) ==
    [main EXCEPT !.pc = "raised", !.fault = fault_, !.at = line,
                 !.exit_code = Some(1)]

\* main, lines 189-228: the JSON output and its return, the printed summary,
\* generate_reports
main_print_summary ==
    /\ copy = "scripts"
    /\ pc = "done"
    /\ calls >= 1
    /\ main.pc = "checks"
    /\ \E args \in Args :
           main' = IF args.json
                   THEN [main EXCEPT !.pc = "returned", !.args = args,
                                     !.exit_code = Some(0)]
                   ELSE IF ~args.quiet /\ "total" \notin DOMAIN summary
                   THEN [MainRaised("KeyError", 205) EXCEPT !.args = args]
                   ELSE [main EXCEPT !.pc = "reported", !.args = args]
    /\ UNCHANGED <<copy, config, demo_mode, pc, idx, results, self_results,
                   kubectl_available, fault, last, summary, calls>>

\* main, lines 230-254: the notification
main_notify ==
    /\ main.pc = "reported"
    /\ IF main.args.notify \/ main.args.notify_on_issues
       THEN \E enabled \in NotificationConfigs :
                LET senders == NotificationManager(enabled)
                IN  \E outcomes \in [1..Len(senders) -> SendOutcomes] :
                        LET r == IF main.args.notify_on_issues
                                 THEN send_if_issues(senders, outcomes, summary,
                                                     TRUE, TRUE)
                                 ELSE send_all(senders, outcomes)
                        IN  main' = [main EXCEPT !.pc = "notified",
                                                 !.enabled = enabled,
                                                 !.senders = senders,
                                                 !.outcomes = outcomes,
                                                 !.sent = r.sent,
                                                 !.results = r.results]
       ELSE main' = [main EXCEPT !.pc = "notified"]
    /\ UNCHANGED <<copy, config, demo_mode, pc, idx, results, self_results,
                   kubectl_available, fault, last, summary, calls>>

\* main, lines 256-307: the detailed listing and the exit code
main_exit ==
    /\ main.pc = "notified"
    /\ main' = IF "critical" \notin DOMAIN summary
               THEN MainRaised("KeyError", 302)
               ELSE IF summary.critical > 0
               THEN [main EXCEPT !.pc = "exited", !.exit_code = Some(2)]
               ELSE IF summary.warning > 0
               THEN [main EXCEPT !.pc = "exited", !.exit_code = Some(1)]
               ELSE [main EXCEPT !.pc = "exited", !.exit_code = Some(0)]
    /\ UNCHANGED <<copy, config, demo_mode, pc, idx, results, self_results,
                   kubectl_available, fault, last, summary, calls>>

\* the catalogs main is run on: no item at all, one threshold item, and
\* items of the two cluster categories
MainCatalogs ==
    {Catalog(Category(<<>>), Category(<<>>), Category(<<>>)),
     Single("OS", PercentItem("OS-001", "count", 80)),
     Catalog(Absent,
             Category(<<PlainItem("K8S-011", "mini"), CountItem("K8S-010", "mini", 10)>>),
             Absent),
     Single("Services", Item("SVC-002", "mini", Some(10), Some("count"),
                             Some(W_Ready), "replica_match"))}

\* python scripts/main.py
InitMain == config \in MainCatalogs /\ Init

NextMain ==
    \/ Next
    \/ main_print_summary
    \/ main_notify
    \/ main_exit

SpecMain == InitMain /\ [][NextMain]_vars

---------------------------------------------------------------------------
(* Properties.                                                             *)

ItemsOf(category) == IF category.present THEN category.items ELSE <<>>

\* the catalog in declaration order, category by category
AllItems ==
    ItemsOf(config.os) \o ItemsOf(config.kubernetes) \o ItemsOf(config.services)

AllCategories ==
    [k \in 1..Len(ItemsOf(config.os)) |-> "OS"]
    \o [k \in 1..Len(ItemsOf(config.kubernetes)) |-> "Kubernetes"]
    \o [k \in 1..Len(ItemsOf(config.services)) |-> "Services"]

Ended == pc \in {"done", "raised"}

\* the most recent iteration appended a CheckResult
HasLast == last.check_id # "" /\ pc # "raised" /\ Len(results) > 0

LastResult == results[Len(results)]

LastItem ==
    CHOOSE item \in {AllItems[k] : k \in 1..Len(AllItems)} : item.id = LastResult.check_id

\* C1: when run_all_checks has ended, in every mode, self.results has one
\* CheckResult per CheckItem of the catalog, with the item's identifier and
\* category, in declaration order, category by category.
C1_OneResultPerItemInOrder ==
    Ended =>
        /\ Len(self_results) = Len(AllItems)
        /\ \A n \in 1..Len(AllItems) :
               /\ self_results[n].check_id = AllItems[n].id
               /\ self_results[n].category = AllCategories[n]

\* C2: in the non-demo path no item's evaluation raises out of
\* run_all_checks, whatever the probe returns: the run is never left by an
\* exception, so every later item is still evaluated.
C2_NoFaultInNonDemoPath ==
    ~demo_mode => (pc # "raised" /\ fault = "none")

\* C3: for an identifier of the zero-is-ok set and an extracted numeric value
\* v, the threshold evaluator returns OK when v = 0, WARNING when 0 < v <= 3
\* and CRITICAL when v > 3, whatever the configured threshold is.
C3_ZeroIsOkClassification ==
    (HasLast /\ last.route = "threshold" /\ last.check_id \in zero_is_ok) =>
        LET extracted == numeric_value_of(last.eval_text)
        IN  extracted # None =>
                LET v == The(extracted)
                IN  LastResult.status =
                        IF v.num = 0 THEN "OK"
                        ELSE IF v.num <= 3 * v.den THEN "WARNING"
                        ELSE "CRITICAL"

\* C3 witness: SVC-004 (threshold 5) measured 2 is WARNING, although 2 is
\* below 0.8 * 5.
C3_Witness ==
    /\ HasLast
    /\ last.route = "threshold"
    /\ last.check_id = "SVC-004"
    /\ last.eval_text = <<"2">>
    /\ LastResult.threshold = Some(5)
    /\ LastResult.status = "WARNING"

ListedLines(text) ==
    SelectSeq(Split(text, "\n"), LAMBDA l : l # <<>> /\ l # NA)

CountLines(lines, marker) ==
    Cardinality({k \in 1..Len(lines) : Contains(lines[k], marker)})

ResourceLines(text) ==
    SelectSeq(Split(text, "\n"), LAMBDA l : l # <<>> /\ Contains(l, <<":">>) /\ l # NA)

\* C6: for an item routed to the replica-match evaluator the status follows
\* from the number of input lines (resource lines) and the number of
\* mismatched resources: no line gives UNKNOWN; no issue gives OK with the
\* number of resources in the message; 1 or 2 issues give WARNING with the
\* names of the mismatched resources; more than 2 give CRITICAL with the
\* issue count only and no names.
C6_ReplicaClassification ==
    (HasLast /\ last.route = "replica") =>
        LET lines  == ResourceLines(last.out.stdout)
            issues == replica_issues(lines)
            r      == LastResult
        IN  IF Len(lines) = 0
            THEN r.status = "UNKNOWN"
            ELSE IF Len(issues) = 0
            THEN /\ r.status = "OK"
                 /\ r.message.kind = "all_resources_ok"
                 /\ r.message.a = Len(lines)
            ELSE IF Len(issues) <= 2
            THEN /\ r.status = "WARNING"
                 /\ r.message.kind = "some_resources_bad"
                 /\ r.message.text = Join(issues, <<",", " ">>)
            ELSE /\ r.status = "CRITICAL"
                 /\ r.message.kind = "many_resources_bad"
                 /\ r.message.a = Len(issues)
                 /\ r.message.text = <<>>

\* C6 witness: three mismatched resources are CRITICAL, count only.
C6_Witness ==
    /\ HasLast
    /\ last.route = "replica"
    /\ Len(replica_issues(ResourceLines(last.out.stdout))) = 3
    /\ LastResult.status = "CRITICAL"
    /\ LastResult.message = MsgCount("many_resources_bad", 3, 0)

\* the rows of a node-utilization table: the lines without the first one
\* when that holds NAME or CPU
TableRows(text) ==
    LET all == Split(text, "\n")
    IN  IF Contains(all[1], W_NAME) \/ Contains(all[1], W_CPU) THEN Tail(all) ELSE all

\* the numbers in the requested column (0-based index col) of the rows with
\* at least 5 columns
ColumnValues(text, col) ==
    LET rows == TableRows(text)
    IN  UNION {IF Len(SplitWs(rows[k])) >= 5
               THEN PyFloat(Remove(SplitWs(rows[k])[col + 1], "%"))
               ELSE {} : k \in 1..Len(rows)}

RequestedColumn(check_id) == IF check_id = "K8S-002" THEN 2 ELSE 4

Largest(values) == CHOOSE m \in values : \A x \in values : RatLe(x, m)

NodeUtilizationLast ==
    HasLast /\ last.check_id \in {"K8S-002", "K8S-003"} /\ last.route = "threshold"

\* C7: for K8S-002 (CPU, column 2) and K8S-003 (memory, column 4) the value
\* handed to the threshold evaluator is the maximum of the parseable numbers
\* of the requested column over the rows with at least 5 columns (header
\* discarded), and the status is the threshold classification of it.
C7_WorstNodeClassified ==
    NodeUtilizationLast =>
        LET values == ColumnValues(last.out.stdout, RequestedColumn(last.check_id))
            T      == The(LastResult.threshold)
        IN  values # {} =>
                LET worst == Largest(values)
                IN  /\ numeric_value_of(last.eval_text) # None
                    /\ RatEq(The(numeric_value_of(last.eval_text)), worst)
                    /\ last.eval_text = PyStrFloat(worst)
                    /\ LastResult.status =
                           IF 10 * worst.num < 8 * T * worst.den THEN "OK"
                           ELSE IF worst.num < T * worst.den THEN "WARNING"
                           ELSE "CRITICAL"

\* C7 witness: rows node2 (45%, 71%) then node1 (32%, 58%) give 71.0 for
\* memory, WARNING against 80.
C7_Witness ==
    /\ NodeUtilizationLast
    /\ last.check_id = "K8S-003"
    /\ last.out.stdout = Join(<<NodeRow("n45"), NodeRow("n32")>>, <<"\n">>)
    /\ last.eval_text = <<"7", "1", ".", "0">>
    /\ LastResult.status = "WARNING"

\* C8: for K8S-002 / K8S-003 whose probe did not fail, when no row yields a
\* parseable percentage in the requested column the result is UNKNOWN with
\* the metrics-data-unavailable message, never OK, WARNING or CRITICAL.
C8_NoParseableRowIsUnknown ==
    NodeUtilizationLast =>
        (ColumnValues(last.out.stdout, RequestedColumn(last.check_id)) = {} =>
            /\ LastResult.status = "UNKNOWN"
            /\ LastResult.message = Msg("metrics_parse_failed"))

\* the probe timed out: empty stdout, an error text, exit code -1
TimedOut(out) == out.stdout = <<>> /\ out.stderr # <<>> /\ out.returncode = 0 - 1

\* C9: in the non-demo path an item whose probe timed out gets a CheckResult
\* with status UNKNOWN, for every identifier, K8S-008 included.
C9_TimeoutIsUnknown ==
    (last.executed /\ TimedOut(last.out)) =>
        /\ HasLast
        /\ LastResult.check_id = last.check_id
        /\ LastResult.status = "UNKNOWN"

\* the canned triple of an identifier
DemoTriple(check_id, category) ==
    IF category = "OS" THEN _get_demo_os_data(check_id)
    ELSE IF category = "Kubernetes" THEN _get_demo_k8s_data(check_id)
    ELSE _get_demo_svc_data(check_id)

\* C10: in demo mode every item of every category gets a CheckResult whose
\* value, status and message are the canned triple of its identifier (N/A,
\* UNKNOWN, no-demo-data when there is none), and the run completes.
C10_DemoTriples ==
    demo_mode =>
        /\ pc # "raised"
        /\ \A k \in 1..Len(self_results) :
               LET r == self_results[k]
               IN  Triple(r.value, r.status, r.message) = DemoTriple(r.check_id, r.category)
        /\ pc = "done" => Len(self_results) = Len(AllItems)

\* C11: in the non-demo path, when the availability probe reports the
\* cluster-query tool unavailable, every Kubernetes item and every Services
\* item gets a CheckResult with status UNKNOWN, value N/A and the fixed
\* tool-unavailable message, and the item's own command is never executed.
C11_ToolUnavailableIsUnknown ==
    (~demo_mode /\ last.route = "unavailable") =>
        /\ ~last.executed
        /\ HasLast
        /\ LastResult.check_id = last.check_id
        /\ LastResult.status = "UNKNOWN"
        /\ LastResult.value = NA
        /\ LastResult.message = Msg("kubectl_unavailable")

\* C12: every CheckResult of every category, in any mode, stores a value of
\* at most 300 characters and a raw_output of at most 500 characters,
\* whatever the length of the probe's output.
C12_BoundedValueAndRawOutput ==
    \A res \in {results, self_results} :
        \A k \in 1..Len(res) :
            /\ Len(res[k].value) <= 300
            /\ Len(res[k].raw_output) <= 500

\* the CheckResults of self.results that have the category and the status
ResultsWith(category, status) ==
    {k \in 1..Len(self_results) : /\ self_results[k].category = category
                                  /\ self_results[k].status = status}

CategoryNames == {"OS", "Kubernetes", "Services"}

FourSum(counters) ==
    counters.ok + counters.warning + counters.critical + counters.unknown

\* C13: for every summary get_summary produces from a non-empty self.results:
\* total is the number of CheckResults; ok + warning + critical + unknown is
\* total; for each category the four counters sum to the number of
\* CheckResults of that category, and the per-category sums add up to total;
\* each result is counted once, under its own status, UNKNOWN as unknown.
C13_SummaryCounts ==
    (calls > 0 /\ self_results # <<>>) =>
        LET by == summary.by_category
            n(status) == Cardinality(UNION {ResultsWith(c, status) : c \in CategoryNames})
        IN  /\ summary.total = Len(self_results)
            /\ summary.ok + summary.warning + summary.critical + summary.unknown
                   = summary.total
            /\ summary.ok = n("OK")
            /\ summary.warning = n("WARNING")
            /\ summary.critical = n("CRITICAL")
            /\ summary.unknown = n("UNKNOWN")
            /\ \A c \in CategoryNames :
                   /\ by[c].ok = Cardinality(ResultsWith(c, "OK"))
                   /\ by[c].warning = Cardinality(ResultsWith(c, "WARNING"))
                   /\ by[c].critical = Cardinality(ResultsWith(c, "CRITICAL"))
                   /\ by[c].unknown = Cardinality(ResultsWith(c, "UNKNOWN"))
                   /\ FourSum(by[c]) =
                          Cardinality({k \in 1..Len(self_results) :
                                           self_results[k].category = c})
            /\ FourSum(by["OS"]) + FourSum(by["Kubernetes"]) + FourSum(by["Services"])
                   = summary.total

\* a summary of results of all three categories, some of them UNKNOWN and
\* some OK
C13_Witness ==
    /\ calls > 0
    /\ summary # EmptyDict
    /\ summary.unknown > 0
    /\ summary.ok > 0
    /\ \A c \in CategoryNames : FourSum(summary.by_category[c]) > 0
    /\ summary.by_category["Services"].unknown > 0

CounterNames == {"ok", "warning", "critical", "unknown"}

\* C14: what get_summary returns always holds total, the four overall
\* counters and a by_category entry for each of OS, Kubernetes and Services
\* with all four counters, zero where the category has no results, also when
\* self.results is empty; so reading summary['total'], summary['warning'],
\* summary['critical'] or a category's counters never meets an absent key.
C14_SummaryHasEveryKey ==
    calls > 0 =>
        /\ {"total", "by_category"} \cup CounterNames \subseteq DOMAIN summary
        /\ CategoryNames \subseteq DOMAIN summary.by_category
        /\ \A c \in CategoryNames :
               /\ CounterNames \subseteq DOMAIN summary.by_category[c]
               /\ (\A k \in 1..Len(self_results) : self_results[k].category # c)
                      => summary.by_category[c] = ZeroCounters

RouteByPriority(item) ==
    IF item.check_type = "replica_match" THEN "replica"
    ELSE IF item.expected # None /\ The(item.expected) # <<>> THEN "ratio"
    ELSE IF item.threshold # None THEN "threshold"
    ELSE "none"

\* C16: for every successfully executed item, in every category, exactly one
\* evaluator is selected by this priority: replica-match if the item declares
\* check_type = replica_match; otherwise ratio-match if it declares an
\* expected marker; otherwise the threshold evaluator if it declares a
\* threshold; otherwise the item is OK with the confirmed message.
C16_EvaluatorPriority ==
    (HasLast /\ last.route \in {"replica", "ratio", "threshold", "none"}) =>
        /\ last.route = RouteByPriority(LastItem)
        /\ last.route = "none" =>
               /\ LastResult.status = "OK"
               /\ LastResult.message = Msg("confirmed")

\* C17: the numeric value used for threshold classification of a text is
\* obtained by removing % and the count suffix and taking the first run of
\* digits, optionally with one decimal point; surrounding whitespace and
\* leading prose do not prevent extraction ('load: 12.5 %' yields 12.5), and
\* a text without a digit yields no value.  Hence a threshold item is UNKNOWN
\* exactly when its text holds no digit, and is otherwise classified by the
\* value of that first run.
C17_NumericExtraction ==
    (HasLast /\ last.route = "threshold") =>
        LET text     == last.eval_text
            no_digit == \A k \in 1..Len(text) : ~IsDigit(text[k])
        IN  /\ no_digit <=> LastResult.status = "UNKNOWN"
            /\ LastResult.status =
                   _evaluate_threshold(text, The(LastItem.threshold), last.check_id)

\* a text in which numeric extraction finds nothing
NoNumericValue(text) == \A k \in 1..Len(text) : ~IsDigit(text[k])

C19_FailedProbeIsUnknown ==
    (last.executed /\ last.out.returncode # 0 /\ last.out.stdout = <<>>) =>
        /\ HasLast
        /\ LastResult.check_id = last.check_id
        /\ LastResult.status = "UNKNOWN"
        /\ LastResult.value = NA
        /\ IF Contains(PyLower(last.out.stderr), W_metrics_api)
           THEN LastResult.message = Msg("metrics_server_missing")
           ELSE LastResult.message.text = Take(last.out.stderr, 100)

\* a query that exits non-zero with empty output because nothing matched:
\* a positive exit code and no error reported on standard error
NothingMatched(out) ==
    /\ out.returncode > 0
    /\ out.stdout = <<>>
    /\ ~Contains(PyLower(out.stderr), W_error)

\* C20: for the zero-match item K8S-008 (a threshold, no expected marker):
\* when its query returns a non-zero exit code with empty output purely
\* because nothing matched, the outcome is normalized to a successful result
\* with value '0', so the CheckResult has status OK rather than UNKNOWN.
C20_ZeroMatchNormalized ==
    (/\ last.executed
     /\ last.category = "Kubernetes"
     /\ last.check_id = "K8S-008"
     /\ NothingMatched(last.out)) =>
        /\ HasLast
        /\ LastResult.check_id = "K8S-008"
        /\ LastItem.threshold # None /\ LastItem.expected = None
        /\ LastResult.value = <<"0">>
        /\ LastResult.status = "OK"

\* the loop iteration of a category run on an item in a fresh call, with no
\* iteration before it
OwnIteration(item, category, out) ==
    IF category = "OS" THEN os_iteration(item, demo_mode, out)
    ELSE IF category = "Services"
    THEN svc_iteration(item, demo_mode, kubectl_available, out)
    ELSE IF copy = "root"
    THEN k8s_iteration_root(item, demo_mode, kubectl_available, out)
    ELSE k8s_iteration(item, demo_mode, kubectl_available, out, <<>>, FALSE)

RaisedByLoopHeader == pc = "raised" /\ last.check_id = ""

\* C22: when the catalog lacks one of the keys os, kubernetes, services, that
\* category is treated as an empty list: its run returns an empty result
\* sequence without raising, and the items of the other categories are still
\* evaluated.
C22_AbsentCategoryIsEmpty ==
    (\E c \in {config.os, config.kubernetes, config.services} : ~c.present) =>
        /\ ~RaisedByLoopHeader
        /\ pc = "done" =>
               /\ Len(self_results) = Len(AllItems)
               /\ \A n \in 1..Len(AllItems) : self_results[n].check_id = AllItems[n].id

\* how many times the character ch occurs in the text s
Occurrences(s, ch) == Cardinality({i \in 1..Len(s) : s[i] = ch})

\* the text after the last colon of a line that holds a colon
AfterLastColon(line) ==
    LET at == CHOOSE i \in 1..Len(line) :
                  /\ line[i] = ":"
                  /\ \A j \in (i + 1)..Len(line) : line[j] # ":"
    IN  SubSeq(line, at + 1, Len(line))

\* a line "name:available/desired" whose two counts differ as strings
MismatchedPair(line) ==
    /\ Occurrences(line, ":") >= 1
    /\ LET pair == AfterLastColon(line)
       IN  /\ Occurrences(pair, "/") = 1
           /\ LET at == CHOOSE i \in 1..Len(pair) : pair[i] = "/"
              IN  SubSeq(pair, 1, at - 1) # SubSeq(pair, at + 1, Len(pair))

\* a line with a colon whose text after the last colon is no single pair
MalformedLine(line) ==
    /\ Occurrences(line, ":") >= 1
    /\ Occurrences(AfterLastColon(line), "/") # 1

\* C23: in the replica-match evaluator the issues are exactly the lines that
\* hold a colon, whose text after the last colon has exactly one slash, and
\* whose available and desired texts differ; a malformed line (no slash or
\* more than one slash after the last colon) is not counted and the check
\* still emits its result.
C23_IssuesAreMismatchedPairs ==
    (last.check_id # "" /\ last.route = "replica") =>
        LET all    == Split(last.out.stdout, "\n")
            issues == {k \in 1..Len(all) : MismatchedPair(all[k])}
            listed == {k \in 1..Len(all) : Occurrences(all[k], ":") >= 1}
            r      == LastResult
        IN  /\ HasLast
            /\ IF listed = {} THEN r.status = "UNKNOWN"
               ELSE IF issues = {} THEN r.status = "OK"
               ELSE IF Cardinality(issues) <= 2
               THEN /\ r.status = "WARNING"
                    /\ r.message.kind = "some_resources_bad"
               ELSE /\ r.status = "CRITICAL"
                    /\ r.message = MsgCount("many_resources_bad", Cardinality(issues), 0)

\* C23 witness: a listing with a malformed line and a mismatched line that
\* holds two colons is WARNING for the one mismatched resource.
C23_Witness ==
    /\ HasLast
    /\ last.route = "replica"
    /\ LET all == Split(last.out.stdout, "\n")
       IN  /\ \E k \in 1..Len(all) :
                  MalformedLine(all[k]) /\ Occurrences(AfterLastColon(all[k]), "/") = 0
           /\ \E k \in 1..Len(all) :
                  MalformedLine(all[k]) /\ Occurrences(AfterLastColon(all[k]), "/") > 1
           /\ \E k \in 1..Len(all) :
                  MismatchedPair(all[k]) /\ Occurrences(all[k], ":") = 2
           /\ Cardinality({k \in 1..Len(all) : MismatchedPair(all[k])}) = 1
    /\ LastResult.status = "WARNING"

\* the messages of the execution-failure branches of the three loops
FailureMessages ==
    {"command_failed", "no_result", "check_failed", "execution_error",
     "metrics_server_missing"}

\* C24: in the non-demo path an item whose probe returned exit code 0, or
\* returned non-empty output, is routed to an evaluator: it is not reported
\* as an execution failure, whatever its standard-error text holds. (The
\* K8S-008 zero-match case has a non-zero exit code with empty output and
\* so lies outside the precondition.)
C24_FailureNeedsNonZeroAndEmpty ==
    (HasLast /\ last.executed
        /\ (last.out.returncode = 0 \/ last.out.stdout # <<>>)) =>
        /\ last.route # "failed"
        /\ LastResult.message.kind \notin FailureMessages

\* C25: a result of the threshold route carries the message of its status:
\* the normal-range message only with OK, the near-threshold message only
\* with WARNING, the threshold-exceeded message only with CRITICAL; an
\* UNKNOWN result never carries the threshold-exceeded message.
C25_ThresholdMessageAgrees ==
    (HasLast /\ last.route = "threshold") =>
        LET r == LastResult
        IN  /\ r.message.kind \in {"within_range", "normal"} => r.status = "OK"
            /\ r.message.kind = "near_threshold" => r.status = "WARNING"
            /\ r.message.kind = "threshold_exceeded" => r.status = "CRITICAL"
            /\ r.status = "UNKNOWN" => r.message.kind # "threshold_exceeded"

\* C26: a result of the threshold route has the status that the threshold
\* evaluator gives to the value the result displays (a displayed value of
\* fewer than 300 characters is the whole value); a Services result that
\* displays "0" for a zero-is-ok identifier is OK.
C26_StatusOfDisplayedValue ==
    (HasLast /\ last.route = "threshold" /\ Len(LastResult.value) < 300) =>
        LET r == LastResult
        IN  /\ r.status = self_evaluate_threshold(r.value, The(r.threshold), r.check_id)
            /\ (r.category = "Services" /\ r.value = <<"0">> /\ r.check_id \in zero_is_ok)
                   => r.status = "OK"

\* the state of a listed resource: the last field of its line, after the
\* colon when the line is "name:state"
StateOf(line) ==
    LET fields == SplitWs(line)
        field  == fields[Len(fields)]
    IN  IF Occurrences(field, ":") >= 1 THEN AfterLastColon(field) ELSE field

\* C27: a listing that the ratio-match evaluator classifies OK has the
\* expected marker itself as the state of every listed resource; a node
\* listing that holds a NotReady node is not OK for the marker Ready.
C27_RatioMatchesStateItself ==
    (HasLast /\ last.route = "ratio" /\ LastResult.status = "OK") =>
        LET lines == ListedLines(last.out.stdout)
        IN  \A k \in 1..Len(lines) : StateOf(lines[k]) = The(LastItem.expected)

\* main ran to its last statement, the exit code of lines 301-307
ReachedEnd == main.pc = "exited" \/ (main.pc = "raised" /\ main.at = 302)

\* the results of self.results that carry the status
Carrying(status) == {k \in 1..Len(self_results) : self_results[k].status = status}

\* C28: when main reaches its end the exit code is 2 if a result is
\* CRITICAL, otherwise 1 if a result is WARNING, otherwise 0 (so 0 for
\* results that are all UNKNOWN, and for a catalog that yields no result).
C28_ExitCodeOfWorstStatus ==
    ReachedEnd =>
        /\ main.fault = "none"
        /\ main.exit_code = Some(IF Carrying("CRITICAL") # {} THEN 2
                                 ELSE IF Carrying("WARNING") # {} THEN 1
                                 ELSE 0)

\* main is past its notification step, lines 230-254
Notified == main.pc \in {"notified", "exited"} \/ (main.pc = "raised" /\ main.at = 302)

\* the Summary counts a WARNING or a CRITICAL result
SummaryHasIssues ==
    summary # EmptyDict /\ (summary.warning > 0 \/ summary.critical > 0)

\* C29: send_if_issues with its default flags sends through the enabled
\* channels exactly when the Summary has warning > 0 or critical > 0;
\* otherwise no sender is called and the returned map is empty, also when
\* the Summary counts UNKNOWN results.
C29_SendsExactlyOnIssues ==
    (Notified /\ main.args.notify_on_issues) =>
        IF SummaryHasIssues
        THEN /\ Len(main.sent) = Cardinality(main.enabled)
             /\ {main.sent[k] : k \in 1..Len(main.sent)} = main.enabled
             /\ Len(main.results) = Cardinality(main.enabled)
        ELSE /\ main.sent = <<>>
             /\ main.results = <<>>

\* C29 witness: channels are enabled and the only results that are not OK
\* are UNKNOWN: nothing is sent.
C29_Witness ==
    /\ Notified
    /\ main.args.notify_on_issues
    /\ main.enabled # {}
    /\ summary # EmptyDict
    /\ summary.unknown > 0
    /\ summary.warning = 0
    /\ summary.critical = 0
    /\ main.sent = <<>>
    /\ main.results = <<>>

\* send_all was called: by --notify, or by send_if_issues that found issues
SendAllCalled ==
    /\ Notified
    /\ \/ main.args.notify_on_issues /\ SummaryHasIssues
       \/ main.args.notify /\ ~main.args.notify_on_issues

\* the place of a sender class in the registration order
Registration(name) == CHOOSE k \in 1..Len(SenderClasses) : SenderClasses[k] = name

\* C30: send_all calls send on every enabled sender exactly once, in the
\* order Email, Slack, Teams, Discord, Telegram, Webhook, and records one
\* boolean per sender: True for a delivery, False for a refused delivery and
\* for an exception inside the sender, after which the later senders are
\* still called.
C30_EverySenderOnceInOrder ==
    SendAllCalled =>
        /\ Len(main.sent) = Cardinality(main.enabled)
        /\ \A name \in main.enabled :
               Cardinality({k \in 1..Len(main.sent) : main.sent[k] = name}) = 1
        /\ \A i, j \in 1..Len(main.sent) :
               i < j => Registration(main.sent[i]) < Registration(main.sent[j])
        /\ Len(main.results) = Len(main.sent)
        /\ \A k \in 1..Len(main.sent) :
               /\ main.results[k].sender = main.sent[k]
               /\ main.results[k].success = (main.outcomes[k] = "delivered")

\* C30 witness: the first of two senders raises inside its send, the second
\* is still called and delivers.
C30_Witness ==
    /\ SendAllCalled
    /\ Len(main.sent) = 2
    /\ main.outcomes[1] = "exception"
    /\ main.outcomes[2] = "delivered"
    /\ main.results[1].success = FALSE
    /\ main.results[2].success = TRUE

====
